---------------------------- MODULE Spec2Model ----------------------------
(***************************************************************************)
(* Model of the crew execution engine of apps/api: the orchestrator worker *)
(* (workers/orchestrator.py), its in-memory cost tracker, the job record   *)
(* it drives (routers/jobs.py, database.py), the cost tracker service      *)
(* (workers/cost_tracker.py) and the safety enforcer's score               *)
(* (workers/safety_enforcer.py).                                           *)
(*                                                                         *)
(* Money is counted in ten-thousandths of a USD (0.05 USD = 500), the      *)
(* resolution of the cost_usd column (Numeric(10, 4)) and of               *)
(* round(cost, 4), so that sums are exact.  Scores are counted in          *)
(* hundredths (1.0 = 100).  Python's None is NoneStr for an Optional[str]  *)
(* and NoneData for an Optional[dict].  A dict is a function; its key      *)
(* order, where the code iterates over it, is kept as a sequence of keys.  *)
(*                                                                         *)
(* Specifications: Spec follows one job through run_crew and execute_crew; *)
(* SpecCost runs track_usage and update_job_final_cost calls of one cost   *)
(* tracker service, one call at a time, SpecCostAudit the same with an     *)
(* audit log that may refuse a record; SpecPrice applies _calculate_cost   *)
(* and SpecScore applies _calculate_safety_score to enumerated inputs.     *)
(***************************************************************************)
EXTENDS Integers, Sequences, FiniteSets, TLC

VARIABLES
    tasks,            \* workflows_config["tasks"]: its keys, in dict order
    dependencies,     \* workflows_config["dependencies"]: task id -> list of ids
    jobs,             \* the jobs table: job id -> Job row
    job_costs,        \* OrchestratorWorker.cost_tracker.job_costs
    pc,               \* where the execute_crew coroutine of the job stands
    execution_order,  \* _execute_workflow's local execution_order
    task_outputs,     \* _execute_workflow's local task_outputs
    idx,              \* position of the for loop in execution_order (1-based)
    exc,              \* the exception in flight, caught at execute_crew line 46
    status_log,       \* history: every status value written to the job row
    executed,         \* history: task ids for which _execute_task was entered
    tracked,          \* history: the track_task_cost calls, in order
    svc_job_costs,    \* cost_tracker.CostTracker.job_costs
    created_at,       \* Job.created_at of each row, as the period it falls in
    audit_log,        \* the audit_logs table: the rows added, in order
    last_call,        \* history: the last call made to the cost tracker service
    returned,         \* history: job id -> what track_usage returned for it
    findings,         \* what a scanned text holds: PII counts, prohibited terms
    safety_report,    \* the report computed for findings
    content,          \* the text given to the safety enforcer
    cleaned_content,  \* the text it returns
    data,             \* the mappings reachable from the dict under validation
    cleaned_data,     \* what validate_input / validate_output returned
    tasks_data,       \* the task definitions given to the crew builder
    workflows_config, \* what generate_workflows_config returned
    workers,          \* concurrent jobs: job id -> its OrchestratorWorker
    context_tasks,    \* task_config["context"] of the task _execute_task is given
    task_context,     \* the context list _execute_task builds
    coroutines        \* cost tracker coroutines in flight: call id -> its state

orch_vars == << tasks, dependencies, job_costs, pc, execution_order,
                task_outputs, idx, exc, status_log, executed, tracked >>
service_vars == << svc_job_costs, created_at, audit_log, last_call, returned >>
safety_vars == << findings, safety_report >>
scan_vars == << content, cleaned_content >>
walk_vars == << data, cleaned_data >>
build_vars == << tasks_data, workflows_config >>

ctx_vars == << context_tasks, task_context >>
late_vars == << ctx_vars, coroutines >>

\* The variables outside the orchestrator, the cost service and the score.
ext_vars == << scan_vars, walk_vars, build_vars, workers, late_vars >>

vars == << orch_vars, jobs, service_vars, safety_vars, ext_vars >>

---------------------------------------------------------------------------
(* Bounds and input domains *)

\* Longest dependency list of one task that Init enumerates.
MaxDeps == 2

\* The task ids a workflow may use (crew_builder names tasks task_<n>).
TaskIds == {"task_1", "task_2", "task_3"}

\* The job whose execution is followed (Job.id of the row run_crew creates).
JobId == "job_1"

\* The jobs the cost tracker service is called for.
CostJobs == {"job_1", "job_2"}

\* track_task_cost(job_id, task_id, 0.05, 1000): cost in ten-thousandths of
\* a USD.
TaskCost == 500
TaskTokens == 1000

NoneStr == "<None>"
NoneData == [none |-> TRUE]
EmptyDict == [k \in {} |-> 0]

\* str(e) of an error raised by the awaited task execution (the stand-in for
\* the model call at _execute_task line 111); an exception built without
\* arguments has the empty string as its str().
ExecutorMessages == {"", "executor failed"}

NoException == [type |-> "none", msg |-> ""]

Range(s) == {s[i] : i \in 1..Len(s)}

\* Sequences over S without repetition, of length at most n.
RECURSIVE DistinctSeqs(_, _)
DistinctSeqs(S, n) ==
    IF n = 0 THEN {<<>>}
    ELSE LET shorter == DistinctSeqs(S, n - 1)
         IN shorter \cup
            {Append(s, x) : <<s, x>> \in
                {p \in shorter \X S : Len(p[1]) = n - 1 /\ p[2] \notin Range(p[1])}}

---------------------------------------------------------------------------
(* OrchestratorWorker._topological_sort *)

DepsGet(deps, task_id) ==
    IF task_id \in DOMAIN deps THEN deps[task_id] ELSE <<>>

RECURSIVE visit(_, _, _, _)
RECURSIVE VisitDeps(_, _, _, _, _)

\* Variant of visit that treats a task in progress like a finished one
\* (returns instead of raising).
visit_ignores_in_progress(task_id, tks, deps, st) ==
    IF st.raised THEN st
    ELSE IF task_id \in st.temp_visited \/ task_id \in st.visited THEN st
    ELSE LET s1 == [st EXCEPT !.temp_visited = @ \cup {task_id}]
             s2 == VisitDeps(DepsGet(deps, task_id), 1, tks, deps, s1)
         IN [s2 EXCEPT !.temp_visited = @ \ {task_id},
                       !.visited = @ \cup {task_id},
                       !.result = Append(@, task_id)]

\* visit(task_id): st carries visited, temp_visited, result, and whether a
\* ValueError is propagating (raised, at).
visit(task_id, tks, deps, st) ==
    IF st.raised THEN st
    ELSE IF task_id \in st.temp_visited
         THEN [st EXCEPT !.raised = TRUE, !.at = task_id]
    ELSE IF task_id \in st.visited THEN st
    ELSE LET s1 == [st EXCEPT !.temp_visited = @ \cup {task_id}]
             s2 == VisitDeps(DepsGet(deps, task_id), 1, tks, deps, s1)
         IN IF s2.raised THEN s2
            ELSE [s2 EXCEPT !.temp_visited = @ \ {task_id},
                            !.visited = @ \cup {task_id},
                            !.result = Append(@, task_id)]

\* Variant of the dependency loop without the "if dep in tasks" filter.
RECURSIVE VisitDeps_unfiltered(_, _, _, _, _)
VisitDeps_unfiltered(ds, i, tks, deps, st) ==
    IF i > Len(ds) \/ st.raised THEN st
    ELSE VisitDeps_unfiltered(ds, i + 1, tks, deps, visit(ds[i], tks, deps, st))

\* for dep in dependencies.get(task_id, []): if dep in tasks: visit(dep)
VisitDeps(ds, i, tks, deps, st) ==
    IF i > Len(ds) \/ st.raised THEN st
    ELSE VisitDeps(ds, i + 1, tks, deps,
                   IF ds[i] \in Range(tks) THEN visit(ds[i], tks, deps, st)
                   ELSE st)

\* for task_id in tasks: if task_id not in visited: visit(task_id)
RECURSIVE SortLoop(_, _, _, _)
SortLoop(tks, i, deps, st) ==
    IF i > Len(tks) \/ st.raised THEN st
    ELSE SortLoop(tks, i + 1, deps,
                  IF tks[i] \notin st.visited THEN visit(tks[i], tks, deps, st)
                  ELSE st)

CircularMessage(task_id) ==
    "Circular dependency detected involving task " \o task_id

\* Variant that returns what was ordered so far when a cycle is met.
_topological_sort_partial(tks, deps) ==
    LET st == SortLoop(tks, 1, deps,
                       [visited |-> {}, temp_visited |-> {}, result |-> <<>>,
                        raised |-> FALSE, at |-> ""])
    IN [raised |-> FALSE, error |-> NoException, value |-> st.result]

\* The call's outcome: either it raises ValueError (and returns nothing), or
\* it returns result.
_topological_sort(tks, deps) ==
    LET st == SortLoop(tks, 1, deps,
                       [visited |-> {}, temp_visited |-> {}, result |-> <<>>,
                        raised |-> FALSE, at |-> ""])
    IN IF st.raised
       THEN [raised |-> TRUE,
             error |-> [type |-> "ValueError", msg |-> CircularMessage(st.at)],
             value |-> <<>>]
       ELSE [raised |-> FALSE, error |-> NoException, value |-> st.result]

---------------------------------------------------------------------------
(* CostTracker (orchestrator.py) *)

\* Variant that assigns the totals instead of adding to them.
track_task_cost_overwrite(costs, job_id, task_id, cost, tokens) ==
    LET entry == IF job_id \in DOMAIN costs THEN costs[job_id]
                 ELSE [total_cost |-> 0, total_tokens |-> 0, tasks |-> EmptyDict]
        tks == [t \in DOMAIN entry.tasks \cup {task_id} |->
                   IF t = task_id THEN [cost |-> cost, tokens |-> tokens]
                   ELSE entry.tasks[t]]
        new == [total_cost |-> cost, total_tokens |-> tokens, tasks |-> tks]
    IN [j \in DOMAIN costs \cup {job_id} |-> IF j = job_id THEN new ELSE costs[j]]

track_task_cost(costs, job_id, task_id, cost, tokens) ==
    LET entry == IF job_id \in DOMAIN costs THEN costs[job_id]
                 ELSE [total_cost |-> 0, total_tokens |-> 0, tasks |-> EmptyDict]
        tks == [t \in DOMAIN entry.tasks \cup {task_id} |->
                   IF t = task_id THEN [cost |-> cost, tokens |-> tokens]
                   ELSE entry.tasks[t]]
        new == [total_cost |-> entry.total_cost + cost,
                total_tokens |-> entry.total_tokens + tokens,
                tasks |-> tks]
    IN [j \in DOMAIN costs \cup {job_id} |-> IF j = job_id THEN new ELSE costs[j]]

get_job_cost(costs, job_id) ==
    IF job_id \in DOMAIN costs THEN costs[job_id].total_cost ELSE 0

---------------------------------------------------------------------------
(* Job row updates *)

TruthyStr(s) == s # NoneStr /\ s # ""
TruthyData(d) == d # NoneData /\ DOMAIN d # {}

\* jobs.py run_crew lines 38-48: the row as inserted (column defaults of
\* database.py Job for the fields not given).
NewJob ==
    [status |-> "pending", output_data |-> NoneData, error_message |-> NoneStr,
     cost_usd |-> 0, tokens_used |-> 0]

_update_job_status(tbl, job_id, status) ==
    [tbl EXCEPT ![job_id].status = status]

_update_job_completion(tbl, job_id, status, output_data, cost_usd, error_message) ==
    LET r0 == [tbl[job_id] EXCEPT !.status = status, !.cost_usd = cost_usd]
        r1 == IF TruthyData(output_data)
              THEN [r0 EXCEPT !.output_data = output_data] ELSE r0
        r2 == IF TruthyStr(error_message)
              THEN [r1 EXCEPT !.error_message = error_message] ELSE r1
    IN [tbl EXCEPT ![job_id] = r2]

---------------------------------------------------------------------------
(* Initial state: a crew with some workflow, no job yet *)

NoCall == [op |-> "none", seq |-> 0]

\* The cost tracker service and the safety enforcer have done nothing.
ServiceIdle ==
    /\ svc_job_costs = EmptyDict
    /\ created_at = EmptyDict
    /\ audit_log = <<>>
    /\ last_call = NoCall
    /\ returned = [j \in CostJobs |-> <<>>]

SafetyIdle ==
    /\ findings = NoneData
    /\ safety_report = NoneData

\* No text has been given to the safety enforcer.
ScanIdle ==
    /\ content = <<>>
    /\ cleaned_content = <<>>

\* No dict has been given to validate_input or validate_output.
WalkIdle ==
    /\ data = EmptyDict
    /\ cleaned_data = NoneData

\* The crew builder has built nothing.
BuildIdle ==
    /\ tasks_data = <<>>
    /\ workflows_config = NoneData

\* No concurrent jobs.
JobsIdle == workers = EmptyDict

\* _execute_task is building no context.
CtxIdle ==
    /\ context_tasks = <<>>
    /\ task_context = <<>>

\* No cost tracker coroutine is in flight.
CoIdle == coroutines = EmptyDict

LateIdle == CtxIdle /\ CoIdle

ExtIdle == ScanIdle /\ WalkIdle /\ BuildIdle /\ JobsIdle /\ LateIdle

\* No crew is being executed.
OrchIdle ==
    /\ tasks = <<>>
    /\ dependencies = EmptyDict
    /\ job_costs = EmptyDict
    /\ pc = "idle"
    /\ execution_order = <<>>
    /\ task_outputs = EmptyDict
    /\ idx = 1
    /\ exc = NoException
    /\ status_log = <<>>
    /\ executed = <<>>
    /\ tracked = <<>>

Init ==
    /\ ExtIdle
    /\ ServiceIdle
    /\ SafetyIdle
    /\ tasks \in DistinctSeqs(TaskIds, Cardinality(TaskIds))
    /\ dependencies \in [Range(tasks) -> DistinctSeqs(TaskIds, MaxDeps)]
    /\ jobs = EmptyDict
    /\ job_costs = EmptyDict
    /\ pc = "idle"
    /\ execution_order = <<>>
    /\ task_outputs = EmptyDict
    /\ idx = 1
    /\ exc = NoException
    /\ status_log = <<>>
    /\ executed = <<>>
    /\ tracked = <<>>

---------------------------------------------------------------------------
(* routers/jobs.py run_crew *)

\* Insert the job row as pending and schedule execute_crew for it.
run_crew ==
    /\ pc = "idle"
    /\ jobs' = [j \in DOMAIN jobs \cup {JobId} |->
                   IF j = JobId THEN NewJob ELSE jobs[j]]
    /\ status_log' = Append(status_log, jobs'[JobId].status)
    /\ pc' = "scheduled"
    /\ UNCHANGED << tasks, dependencies, job_costs, execution_order,
                    task_outputs, idx, exc, executed, tracked >>
    /\ UNCHANGED << service_vars, safety_vars >>
    /\ UNCHANGED ext_vars

---------------------------------------------------------------------------
(* OrchestratorWorker.execute_crew, in the steps between its awaits *)

\* Variant that starts the workflow without writing status running.
execute_crew_begin_no_status ==
    /\ pc = "scheduled"
    /\ pc' = "workflow"
    /\ UNCHANGED << tasks, dependencies, jobs, job_costs, execution_order,
                    task_outputs, idx, exc, status_log, executed, tracked >>
    /\ UNCHANGED << service_vars, safety_vars >>
    /\ UNCHANGED ext_vars

\* Line 26: the coroutine starts and writes status running.
execute_crew_begin ==
    /\ pc = "scheduled"
    /\ jobs' = _update_job_status(jobs, JobId, "running")
    /\ status_log' = Append(status_log, jobs'[JobId].status)
    /\ pc' = "workflow"
    /\ UNCHANGED << tasks, dependencies, job_costs, execution_order,
                    task_outputs, idx, exc, executed, tracked >>
    /\ UNCHANGED << service_vars, safety_vars >>
    /\ UNCHANGED ext_vars

\* _execute_workflow lines 60-66: compute the order, or let the ValueError
\* propagate to execute_crew's except clause.
_execute_workflow_order ==
    /\ pc = "workflow"
    /\ LET r == _topological_sort(tasks, dependencies)
       IN \/ /\ r.raised
             /\ exc' = r.error
             /\ pc' = "except"
             /\ UNCHANGED << execution_order, task_outputs, idx >>
          \/ /\ ~r.raised
             /\ execution_order' = r.value
             /\ task_outputs' = EmptyDict
             /\ idx' = 1
             /\ pc' = "loop"
             /\ exc' = exc
    /\ UNCHANGED << tasks, dependencies, jobs, job_costs, status_log,
                    executed, tracked >>
    /\ UNCHANGED << service_vars, safety_vars >>
    /\ UNCHANGED ext_vars

\* The value _execute_task returns (the fields the job record and the cost
\* figures depend on).
TaskResult(task_id) ==
    [task_id |-> task_id, tokens_used |-> TaskTokens, cost_usd |-> TaskCost]

AttributeError == [type |-> "AttributeError",
                   msg |-> "'str' object has no attribute 'get'"]

\* Variant that does not await the task in progress before starting the
\* next one of the order.
_execute_task_start_unawaited ==
    /\ pc \in {"loop", "in_task"}
    /\ LET next == IF pc = "in_task" THEN idx + 1 ELSE idx
       IN /\ next <= Len(execution_order)
          /\ executed' = Append(executed, execution_order[next])
          /\ idx' = next
    /\ pc' = "in_task"
    /\ UNCHANGED << tasks, dependencies, jobs, job_costs, execution_order,
                    task_outputs, exc, status_log, tracked >>
    /\ UNCHANGED << service_vars, safety_vars >>
    /\ UNCHANGED ext_vars

\* Loop body up to the await of _execute_task line 111.  tasks[task_id] is
\* whatever JSON value the crew holds: task_config.get (line 72) raises
\* AttributeError when it is not a mapping.
_execute_task_start ==
    /\ pc = "loop"
    /\ idx <= Len(execution_order)
    /\ \E task_config_is_dict \in BOOLEAN :
          \/ /\ ~task_config_is_dict
             /\ exc' = AttributeError
             /\ pc' = "except"
             /\ executed' = executed
          \/ /\ task_config_is_dict
             /\ executed' = Append(executed, execution_order[idx])
             /\ pc' = "in_task"
             /\ exc' = exc
    /\ UNCHANGED << tasks, dependencies, jobs, job_costs, execution_order,
                    task_outputs, idx, status_log, tracked >>
    /\ UNCHANGED << service_vars, safety_vars >>
    /\ UNCHANGED ext_vars

\* Variant in which a failed execution is attempted again instead of being
\* propagated.
_execute_task_finish_retry ==
    /\ pc = "in_task"
    /\ LET task_id == execution_order[idx]
           costs1 == track_task_cost(job_costs, JobId, task_id, TaskCost, TaskTokens)
           call == [task |-> task_id, cost |-> TaskCost, tokens |-> TaskTokens]
       IN \/ /\ \E m \in ExecutorMessages :
                   exc' = [type |-> "ExecutorError", msg |-> m]
             /\ pc' = "loop"
             /\ UNCHANGED << job_costs, tracked, task_outputs, idx >>
          \/ /\ job_costs' = costs1
             /\ tracked' = Append(tracked, call)
             /\ task_outputs' =
                   [t \in DOMAIN task_outputs \cup {task_id} |->
                       IF t = task_id THEN TaskResult(task_id)
                       ELSE task_outputs[t]]
             /\ idx' = idx + 1
             /\ pc' = "loop"
             /\ exc' = exc
    /\ UNCHANGED << tasks, dependencies, jobs, execution_order, status_log,
                    executed >>
    /\ UNCHANGED << service_vars, safety_vars >>
    /\ UNCHANGED ext_vars

\* _execute_task lines 111-126 and _execute_workflow line 80.  The await of
\* line 111 stands for the agent's execution ("In a real implementation,
\* this would use CrewAI/LangChain", lines 98-99): it either raises some
\* Exception, which execute_crew line 46 catches whatever its message
\* (nothing is tracked then), or returns; then the cost is
\* tracked (line 114); then agent_config.get (line 121) raises AttributeError
\* when the role entry is not a mapping, or the result is stored.
_execute_task_finish ==
    /\ pc = "in_task"
    /\ LET task_id == execution_order[idx]
           costs1 == track_task_cost(job_costs, JobId, task_id, TaskCost, TaskTokens)
           call == [task |-> task_id, cost |-> TaskCost, tokens |-> TaskTokens]
       IN \/ /\ \E m \in ExecutorMessages :
                   exc' = [type |-> "ExecutorError", msg |-> m]
             /\ pc' = "except"
             /\ UNCHANGED << job_costs, tracked, task_outputs, idx >>
          \/ /\ job_costs' = costs1
             /\ tracked' = Append(tracked, call)
             /\ exc' = AttributeError
             /\ pc' = "except"
             /\ UNCHANGED << task_outputs, idx >>
          \/ /\ job_costs' = costs1
             /\ tracked' = Append(tracked, call)
             /\ task_outputs' =
                   [t \in DOMAIN task_outputs \cup {task_id} |->
                       IF t = task_id THEN TaskResult(task_id)
                       ELSE task_outputs[t]]
             /\ idx' = idx + 1
             /\ pc' = "loop"
             /\ exc' = exc
    /\ UNCHANGED << tasks, dependencies, jobs, execution_order, status_log,
                    executed >>
    /\ UNCHANGED << service_vars, safety_vars >>
    /\ UNCHANGED ext_vars

\* Variant that takes the result of the first task of the order.
WorkflowOutput_first(outputs, order) ==
    [tasks |-> outputs,
     final_output |-> IF order # <<>> /\ order[1] \in DOMAIN outputs
                      THEN outputs[order[1]] ELSE EmptyDict,
     execution_order |-> order]

\* _execute_workflow lines 82-86: the dict it returns.
WorkflowOutput(outputs, order) ==
    [tasks |-> outputs,
     final_output |-> IF order # <<>> /\ order[Len(order)] \in DOMAIN outputs
                      THEN outputs[order[Len(order)]] ELSE EmptyDict,
     execution_order |-> order]

\* execute_crew lines 34-44, after the last task: total cost, then the row
\* is written as completed.
execute_crew_complete ==
    /\ pc = "loop"
    /\ idx > Len(execution_order)
    /\ LET output_data == WorkflowOutput(task_outputs, execution_order)
           total_cost == get_job_cost(job_costs, JobId)
       IN jobs' = _update_job_completion(jobs, JobId, "completed", output_data,
                                         total_cost, NoneStr)
    /\ status_log' = Append(status_log, jobs'[JobId].status)
    /\ pc' = "done"
    /\ UNCHANGED << tasks, dependencies, job_costs, execution_order,
                    task_outputs, idx, exc, executed, tracked >>
    /\ UNCHANGED << service_vars, safety_vars >>
    /\ UNCHANGED ext_vars

\* Variant whose except clause writes the status of the success path.
execute_crew_except_completed ==
    /\ pc = "except"
    /\ jobs' = _update_job_completion(jobs, JobId, "completed", NoneData, 0, exc.msg)
    /\ status_log' = Append(status_log, jobs'[JobId].status)
    /\ pc' = "done"
    /\ UNCHANGED << tasks, dependencies, job_costs, execution_order,
                    task_outputs, idx, exc, executed, tracked >>
    /\ UNCHANGED << service_vars, safety_vars >>
    /\ UNCHANGED ext_vars

\* Variant whose except clause lets the exception go on to the caller.
execute_crew_except_reraise ==
    /\ pc = "except"
    /\ pc' = "raised"
    /\ UNCHANGED << tasks, dependencies, jobs, job_costs, execution_order,
                    task_outputs, idx, exc, status_log, executed, tracked >>
    /\ UNCHANGED << service_vars, safety_vars >>
    /\ UNCHANGED ext_vars

\* execute_crew lines 46-50: except Exception as e.
execute_crew_except ==
    /\ pc = "except"
    /\ jobs' = _update_job_completion(jobs, JobId, "failed", NoneData, 0, exc.msg)
    /\ status_log' = Append(status_log, jobs'[JobId].status)
    /\ pc' = "done"
    /\ UNCHANGED << tasks, dependencies, job_costs, execution_order,
                    task_outputs, idx, exc, executed, tracked >>
    /\ UNCHANGED << service_vars, safety_vars >>
    /\ UNCHANGED ext_vars

Next ==
    \/ run_crew
    \/ execute_crew_begin
    \/ _execute_workflow_order
    \/ _execute_task_start
    \/ _execute_task_finish
    \/ execute_crew_complete
    \/ execute_crew_except

Spec == Init /\ [][Next]_vars

\* execute_crew lines 21-50: the steps of the coroutine; its position (pc)
\* enables one of them at a time.
execute_crew ==
    \/ execute_crew_begin
    \/ _execute_workflow_order
    \/ _execute_task_start
    \/ _execute_task_finish
    \/ execute_crew_complete
    \/ execute_crew_except

\* The event loop resumes the execute_crew coroutine whenever the await it
\* is suspended at has returned: with a task executor and a job store that
\* always return, every enabled step of the coroutine is eventually taken.
\* Nothing obliges the router to create a job.
SpecFair == Init /\ [][Next]_vars /\ WF_vars(execute_crew)

---------------------------------------------------------------------------
(* workers/cost_tracker.py: the price of a call *)

\* MODEL_COSTS, lines 19-24: USD per 1K tokens, in units of 0.00001 USD, so
\* that tokens * rate is the cost in units of 0.00000001 USD.
MODEL_COSTS ==
    [m \in {"gpt-4", "gpt-3.5-turbo", "claude-3-sonnet", "claude-3-haiku"} |->
        CASE m = "gpt-4" -> [input |-> 3000, output |-> 6000]
          [] m = "gpt-3.5-turbo" -> [input |-> 100, output |-> 200]
          [] m = "claude-3-sonnet" -> [input |-> 300, output |-> 1500]
          [] m = "claude-3-haiku" -> [input |-> 25, output |-> 125]]

\* A model name that is not in the table.
UnknownModel == "unknown-model"

ModelNames == DOMAIN MODEL_COSTS \cup {UnknownModel}

\* The number of 0.00000001 USD in 0.0001 USD.
Scale4 == 10000

\* Variant that drops the digits after the fourth decimal place.
round4_truncating(n) == {n \div Scale4}

\* round(x, 4) of line 87, for x = n * 0.00000001 USD, in ten-thousandths of
\* a USD: the nearest multiple of 0.0001.  x is a binary float: when n is
\* exactly half way between two multiples the float lies on one side or the
\* other of the tie, and the result is either neighbour (0.2 * 0.00025
\* rounds to 0.0001, 0.6 * 0.00025 to 0.0001 as well).
round4(n) ==
    LET q == n \div Scale4
        r == n % Scale4
    IN IF 2 * r < Scale4 THEN {q}
       ELSE IF 2 * r > Scale4 THEN {q + 1}
       ELSE {q, q + 1}

\* _calculate_cost, lines 77-87: the set of values the call can return, in
\* ten-thousandths of a USD.
_calculate_cost(model, input_tokens, output_tokens) ==
    LET m == IF model \notin DOMAIN MODEL_COSTS THEN "gpt-4" ELSE model
        costs == MODEL_COSTS[m]
        input_cost == input_tokens * costs.input
        output_cost == output_tokens * costs.output
    IN round4(input_cost + output_cost)

\* Token counts: every small count, and their thousands.
MaxTokens == 50
TokenCounts == (0..MaxTokens) \cup {1000 * k : k \in 1..MaxTokens}

InitPrice ==
    /\ ExtIdle
    /\ OrchIdle
    /\ jobs = EmptyDict
    /\ ServiceIdle
    /\ SafetyIdle

\* One call of _calculate_cost on some model name and token counts.
calculate_cost_call ==
    /\ last_call = NoCall
    /\ \E model \in ModelNames, input_tokens, output_tokens \in TokenCounts :
          \E cost \in _calculate_cost(model, input_tokens, output_tokens) :
             last_call' = [op |-> "_calculate_cost", seq |-> 1, model |-> model,
                           input_tokens |-> input_tokens,
                           output_tokens |-> output_tokens, cost |-> cost]
    /\ UNCHANGED << orch_vars, jobs, safety_vars >>
    /\ UNCHANGED << svc_job_costs, created_at, audit_log, returned >>
    /\ UNCHANGED ext_vars

NextPrice == calculate_cost_call

SpecPrice == InitPrice /\ [][NextPrice]_vars

---------------------------------------------------------------------------
(* workers/cost_tracker.py: the ledger, the thresholds, the final cost *)

\* Lines 27-29, in ten-thousandths of a USD.
DAILY_THRESHOLD == 1000000
MONTHLY_THRESHOLD == 10000000
JOB_THRESHOLD == 100000

\* The calls made to track_usage: 5 USD exactly (two of them are exactly the
\* job threshold), 11 USD on an unknown model, a call whose cost is a
\* rounding tie between 0 and 0.0001 USD, and a small call priced on both
\* token counts.
Usages ==
    { [model |-> "gpt-3.5-turbo", input_tokens |-> 5000000, output_tokens |-> 0],
      [model |-> UnknownModel, input_tokens |-> 0, output_tokens |-> 183334],
      [model |-> "claude-3-haiku", input_tokens |-> 200, output_tokens |-> 0],
      [model |-> "claude-3-sonnet", input_tokens |-> 1500, output_tokens |-> 700] }

\* task_id: Optional[str] = None.
UsageTaskIds == {NoneStr, "task_1"}

\* Calls made to the service in one behaviour.
MaxCalls == 3

\* A job of an earlier run, in the table before the service is used.
PastJob == "job_0"

\* Lines 49-54 and get_job_cost's default.
ZeroCost == [total_cost |-> 0, total_tokens |-> 0, tasks |-> EmptyDict]

\* Variant that counts the input tokens only.
UpdateTracking_input_only(costs, job_id, model, input_tokens, output_tokens, task_id, cost) ==
    LET e0 == IF job_id \in DOMAIN costs THEN costs[job_id] ELSE ZeroCost
        e1 == [e0 EXCEPT !.total_cost = @ + cost,
                         !.total_tokens = @ + input_tokens]
        e2 == IF TruthyStr(task_id)
              THEN [e1 EXCEPT !.tasks =
                      [t \in DOMAIN e1.tasks \cup {task_id} |->
                          IF t = task_id
                          THEN [cost |-> cost, tokens |-> input_tokens,
                                model |-> model, agent |-> NoneStr]
                          ELSE e1.tasks[t]]]
              ELSE e1
    IN [j \in DOMAIN costs \cup {job_id} |-> IF j = job_id THEN e2 ELSE costs[j]]

\* track_usage lines 48-65 ("Update in-memory tracking"): the ledger after
\* the call.  agent_name is left at its default, None.
UpdateTracking(costs, job_id, model, input_tokens, output_tokens, task_id, cost) ==
    LET e0 == IF job_id \in DOMAIN costs THEN costs[job_id] ELSE ZeroCost
        e1 == [e0 EXCEPT !.total_cost = @ + cost,
                         !.total_tokens = @ + input_tokens + output_tokens]
        e2 == IF TruthyStr(task_id)
              THEN [e1 EXCEPT !.tasks =
                      [t \in DOMAIN e1.tasks \cup {task_id} |->
                          IF t = task_id
                          THEN [cost |-> cost,
                                tokens |-> input_tokens + output_tokens,
                                model |-> model, agent |-> NoneStr]
                          ELSE e1.tasks[t]]]
              ELSE e1
    IN [j \in DOMAIN costs \cup {job_id} |-> IF j = job_id THEN e2 ELSE costs[j]]

\* _log_usage_event lines 99-113: the AuditLog row.
UsageEvent(job_id, model, input_tokens, output_tokens, cost, task_id) ==
    [event_type |-> "token_usage", job_id |-> job_id,
     event_data |-> [model |-> model, input_tokens |-> input_tokens,
                     output_tokens |-> output_tokens,
                     total_tokens |-> input_tokens + output_tokens,
                     cost_usd |-> cost, task_id |-> task_id]]

\* _send_cost_alert lines 180-188: the AuditLog row; it carries no job_id,
\* the job of a job alert is named in the message only.
CostAlert(alert_type, message) ==
    [event_type |-> "cost_alert", job_id |-> NoneStr,
     event_data |-> [alert_type |-> alert_type, message |-> message]]

RECURSIVE SumCostUsd(_, _)
SumCostUsd(tbl, rows) ==
    IF rows = {} THEN 0
    ELSE LET j == CHOOSE x \in rows : TRUE
         IN tbl[j].cost_usd + SumCostUsd(tbl, rows \ {j})

\* _get_daily_cost lines 146-161: sum of cost_usd over the rows created today.
_get_daily_cost(tbl, created) ==
    SumCostUsd(tbl, {j \in DOMAIN tbl : created[j] = "today"})

\* _get_monthly_cost lines 163-174: over the rows created since the first of
\* the month, today's included.
_get_monthly_cost(tbl, created) ==
    SumCostUsd(tbl, {j \in DOMAIN tbl : created[j] \in {"today", "this_month"}})

\* Variant that alerts from the threshold on.
_check_cost_thresholds_at_threshold(costs, tbl, created, job_id) ==
    LET job_total == IF job_id \in DOMAIN costs THEN costs[job_id].total_cost ELSE 0
        daily_cost == _get_daily_cost(tbl, created)
        monthly_cost == _get_monthly_cost(tbl, created)
    IN (IF job_total >= JOB_THRESHOLD
        THEN << CostAlert("job_threshold_exceeded",
                          [job |-> job_id, cost |-> job_total]) >>
        ELSE <<>>)
       \o (IF daily_cost >= DAILY_THRESHOLD
           THEN << CostAlert("daily_threshold_exceeded", [cost |-> daily_cost]) >>
           ELSE <<>>)
       \o (IF monthly_cost >= MONTHLY_THRESHOLD
           THEN << CostAlert("monthly_threshold_exceeded", [cost |-> monthly_cost]) >>
           ELSE <<>>)

\* Variant whose daily and monthly costs count the ledger of the running
\* jobs as well.
_check_cost_thresholds_with_ledger(costs, tbl, created, job_id) ==
    LET job_total == IF job_id \in DOMAIN costs THEN costs[job_id].total_cost ELSE 0
        total(j) == IF j \in DOMAIN costs THEN costs[j].total_cost ELSE 0
        running == total("job_1") + total("job_2")
        daily_cost == _get_daily_cost(tbl, created) + running
        monthly_cost == _get_monthly_cost(tbl, created) + running
    IN (IF job_total > JOB_THRESHOLD
        THEN << CostAlert("job_threshold_exceeded",
                          [job |-> job_id, cost |-> job_total]) >>
        ELSE <<>>)
       \o (IF daily_cost > DAILY_THRESHOLD
           THEN << CostAlert("daily_threshold_exceeded", [cost |-> daily_cost]) >>
           ELSE <<>>)
       \o (IF monthly_cost > MONTHLY_THRESHOLD
           THEN << CostAlert("monthly_threshold_exceeded", [cost |-> monthly_cost]) >>
           ELSE <<>>)

\* _check_cost_thresholds lines 119-144: the alerts it sends, in order.
_check_cost_thresholds(costs, tbl, created, job_id) ==
    LET job_total == IF job_id \in DOMAIN costs THEN costs[job_id].total_cost ELSE 0
        daily_cost == _get_daily_cost(tbl, created)
        monthly_cost == _get_monthly_cost(tbl, created)
    IN (IF job_total > JOB_THRESHOLD
        THEN << CostAlert("job_threshold_exceeded",
                          [job |-> job_id, cost |-> job_total]) >>
        ELSE <<>>)
       \o (IF daily_cost > DAILY_THRESHOLD
           THEN << CostAlert("daily_threshold_exceeded", [cost |-> daily_cost]) >>
           ELSE <<>>)
       \o (IF monthly_cost > MONTHLY_THRESHOLD
           THEN << CostAlert("monthly_threshold_exceeded", [cost |-> monthly_cost]) >>
           ELSE <<>>)

\* What an earlier job may have spent: nothing (there is none), more than the
\* daily threshold today, 5 USD less than the daily threshold today, or more
\* than the monthly threshold earlier this month.
PastRuns ==
    { [created |-> "none", cost_usd |-> 0],
      [created |-> "today", cost_usd |-> DAILY_THRESHOLD + 200000],
      [created |-> "today", cost_usd |-> DAILY_THRESHOLD - 50000],
      [created |-> "this_month", cost_usd |-> MONTHLY_THRESHOLD + 2000000] }

\* The rows of the jobs table before the service is used: job_1 is there,
\* job_2 may have no row, and there may be the row of an earlier job.
InitCost ==
    /\ ExtIdle
    /\ OrchIdle
    /\ SafetyIdle
    /\ svc_job_costs = EmptyDict
    /\ audit_log = <<>>
    /\ last_call = NoCall
    /\ returned = [j \in CostJobs |-> <<>>]
    /\ \E present \in {{JobId}, CostJobs}, past \in PastRuns :
          /\ jobs = [j \in present \cup (IF past.created = "none"
                                        THEN {} ELSE {PastJob}) |->
                        IF j = PastJob
                        THEN [NewJob EXCEPT !.status = "completed",
                                            !.cost_usd = past.cost_usd]
                        ELSE [NewJob EXCEPT !.status = "running"]]
          /\ created_at = [j \in DOMAIN jobs |->
                             IF j = PastJob THEN past.created ELSE "today"]

\* track_usage lines 34-75, with an audit log that stores every row.
track_usage ==
    /\ last_call.seq < MaxCalls
    /\ \E job_id \in CostJobs, u \in Usages, task_id \in UsageTaskIds :
       \E cost \in _calculate_cost(u.model, u.input_tokens, u.output_tokens) :
          LET costs1 == UpdateTracking(svc_job_costs, job_id, u.model,
                                       u.input_tokens, u.output_tokens,
                                       task_id, cost)
              event == UsageEvent(job_id, u.model, u.input_tokens,
                                  u.output_tokens, cost, task_id)
              alerts == _check_cost_thresholds(costs1, jobs, created_at, job_id)
          IN /\ svc_job_costs' = costs1
             /\ audit_log' = Append(audit_log, event) \o alerts
             /\ returned' = [returned EXCEPT ![job_id] =
                               Append(@, [cost |-> cost,
                                          tokens |-> u.input_tokens + u.output_tokens])]
             /\ last_call' = [op |-> "track_usage", seq |-> last_call.seq + 1,
                              job_id |-> job_id, usage |-> u, task_id |-> task_id,
                              outcome |-> "returned", cost |-> cost,
                              total_before |-> IF job_id \in DOMAIN svc_job_costs
                                               THEN svc_job_costs[job_id].total_cost
                                               ELSE 0,
                              logged_before |-> Len(audit_log)]
    /\ UNCHANGED << orch_vars, jobs, created_at, safety_vars >>
    /\ UNCHANGED ext_vars

\* Variant that keeps the ledger entry after writing the job row.
update_job_final_cost_keep ==
    /\ last_call.seq < MaxCalls
    /\ \E job_id \in CostJobs :
          LET job_cost_data == IF job_id \in DOMAIN svc_job_costs
                               THEN svc_job_costs[job_id] ELSE ZeroCost
          IN /\ jobs' = IF job_id \in DOMAIN jobs
                        THEN [jobs EXCEPT
                                ![job_id].cost_usd = job_cost_data.total_cost,
                                ![job_id].tokens_used = job_cost_data.total_tokens]
                        ELSE jobs
             /\ svc_job_costs' = svc_job_costs
             /\ returned' = [returned EXCEPT ![job_id] = <<>>]
             /\ last_call' = [op |-> "update_job_final_cost",
                              seq |-> last_call.seq + 1, job_id |-> job_id,
                              outcome |-> "returned",
                              had_entry |-> job_id \in DOMAIN svc_job_costs,
                              job_cost_data |-> job_cost_data]
    /\ UNCHANGED << orch_vars, created_at, audit_log, safety_vars >>
    /\ UNCHANGED ext_vars

\* update_job_final_cost lines 254-269: read the entry (get_job_cost lines
\* 196-202: zeros when there is none), write it to the job row if there is
\* one, delete the entry.  returned starts again with the next entry.
update_job_final_cost ==
    /\ last_call.seq < MaxCalls
    /\ \E job_id \in CostJobs :
          LET job_cost_data == IF job_id \in DOMAIN svc_job_costs
                               THEN svc_job_costs[job_id] ELSE ZeroCost
          IN /\ jobs' = IF job_id \in DOMAIN jobs
                        THEN [jobs EXCEPT
                                ![job_id].cost_usd = job_cost_data.total_cost,
                                ![job_id].tokens_used = job_cost_data.total_tokens]
                        ELSE jobs
             /\ svc_job_costs' = [j \in DOMAIN svc_job_costs \ {job_id} |->
                                     svc_job_costs[j]]
             /\ returned' = [returned EXCEPT ![job_id] = <<>>]
             /\ last_call' = [op |-> "update_job_final_cost",
                              seq |-> last_call.seq + 1, job_id |-> job_id,
                              outcome |-> "returned",
                              had_entry |-> job_id \in DOMAIN svc_job_costs,
                              job_cost_data |-> job_cost_data]
    /\ UNCHANGED << orch_vars, created_at, audit_log, safety_vars >>
    /\ UNCHANGED ext_vars

NextCost ==
    \/ track_usage
    \/ update_job_final_cost

SpecCost == InitCost /\ [][NextCost]_vars

\* track_usage when the audit log refuses a row: db.commit() of
\* _log_usage_event line 117 or of _send_cost_alert line 190 raises.  The
\* ledger was updated before (lines 48-65), the rows written before the
\* refused one stay, and nothing between the commit and the caller catches
\* the exception: the call returns no cost.
track_usage_audit_fails ==
    /\ last_call.seq < MaxCalls
    /\ \E job_id \in CostJobs, u \in Usages, task_id \in UsageTaskIds :
       \E cost \in _calculate_cost(u.model, u.input_tokens, u.output_tokens) :
          LET costs1 == UpdateTracking(svc_job_costs, job_id, u.model,
                                       u.input_tokens, u.output_tokens,
                                       task_id, cost)
              event == UsageEvent(job_id, u.model, u.input_tokens,
                                  u.output_tokens, cost, task_id)
              alerts == _check_cost_thresholds(costs1, jobs, created_at, job_id)
              rows == << event >> \o alerts
          IN \E refused \in 1..Len(rows) :
                /\ svc_job_costs' = costs1
                /\ audit_log' = audit_log \o SubSeq(rows, 1, refused - 1)
                /\ last_call' = [op |-> "track_usage", seq |-> last_call.seq + 1,
                                 job_id |-> job_id, usage |-> u,
                                 task_id |-> task_id,
                                 outcome |-> "raised", cost |-> cost,
                                 total_before |-> IF job_id \in DOMAIN svc_job_costs
                                                  THEN svc_job_costs[job_id].total_cost
                                                  ELSE 0,
                                 logged_before |-> Len(audit_log)]
    /\ UNCHANGED << orch_vars, jobs, created_at, returned, safety_vars >>
    /\ UNCHANGED ext_vars

NextCostAudit ==
    \/ track_usage
    \/ track_usage_audit_fails
    \/ update_job_final_cost

SpecCostAudit == InitCost /\ [][NextCostAudit]_vars

---------------------------------------------------------------------------
(* workers/safety_enforcer.py: the safety score, in hundredths *)

\* Keys of pii_found (three of the PII_PATTERNS of lines 18-25; the score
\* uses the sum of the counts only).
PiiTypes == {"email", "phone", "ssn"}

\* Most hits of one PII type in a text.
MaxHits == 3

\* Keys of prohibited_content: those of PROHIBITED_PATTERNS (lines 28-40) and
\* one that the score knows no penalty for.
Categories == {"violence", "hate_speech", "illegal", "other"}

\* Matched terms of a category (list(set(matches)), line 165).
Terms == {"kill", "bomb"}

Min(a, b) == IF a < b THEN a ELSE b
Max(a, b) == IF a > b THEN a ELSE b

RECURSIVE SumValues(_, _)
SumValues(d, keys) ==
    IF keys = {} THEN 0
    ELSE LET k == CHOOSE x \in keys : TRUE
         IN d[k] + SumValues(d, keys \ {k})

\* Variant without the cap of the PII deduction.
PiiDeduction_uncapped(total_pii) ==
    IF total_pii > 0 THEN total_pii * 5 ELSE 0

\* Variant with a cap of 0.5 on the PII deduction.
PiiDeduction_cap_half(total_pii) ==
    IF total_pii > 0 THEN Min(50, total_pii * 5) ELSE 0

\* Lines 177-180: min(0.3, total_pii * 0.05) when there is any PII.
PiiDeduction(total_pii) ==
    IF total_pii > 0 THEN Min(30, total_pii * 5) ELSE 0

\* Lines 184-190: the deduction for one entry of prohibited_content.
CategoryDeduction(category, matches) ==
    IF matches # {}
    THEN CASE category = "violence" -> 40
           [] category = "hate_speech" -> 50
           [] category = "illegal" -> 60
           [] OTHER -> 0
    ELSE 0

RECURSIVE ProhibitedDeduction(_, _)
ProhibitedDeduction(prohibited_content, categories) ==
    IF categories = {} THEN 0
    ELSE LET c == CHOOSE x \in categories : TRUE
         IN CategoryDeduction(c, prohibited_content[c])
            + ProhibitedDeduction(prohibited_content, categories \ {c})

\* Variant that returns the score as it is after the deductions.
_calculate_safety_score_unclamped(pii_found, prohibited_content) ==
    100 - PiiDeduction(SumValues(pii_found, DOMAIN pii_found))
        - ProhibitedDeduction(prohibited_content, DOMAIN prohibited_content)

\* _calculate_safety_score, lines 169-192.
_calculate_safety_score(pii_found, prohibited_content) ==
    LET total_pii == SumValues(pii_found, DOMAIN pii_found)
        score == 100 - PiiDeduction(total_pii)
                     - ProhibitedDeduction(prohibited_content,
                                           DOMAIN prohibited_content)
    IN Max(0, score)

\* The dicts _calculate_safety_score is called with: a count per PII type,
\* and the matched terms of some categories (_check_prohibited_content keeps
\* the categories with matches; a direct caller may pass an empty list).
PiiCounts == [PiiTypes -> 0..MaxHits]
ProhibitedReports ==
    UNION {[cs -> SUBSET Terms] : cs \in SUBSET Categories}

InitScore ==
    /\ ExtIdle
    /\ OrchIdle
    /\ jobs = EmptyDict
    /\ ServiceIdle
    /\ SafetyIdle

\* enforce_safety lines 55-77, from the two reports on: the score of the
\* findings is put in the safety report.
calculate_safety_score_call ==
    /\ findings = NoneData
    /\ \E pii_found \in PiiCounts, prohibited_content \in ProhibitedReports :
          /\ findings' = [pii_found |-> pii_found,
                          prohibited_content |-> prohibited_content]
          /\ safety_report' =
                [pii_found |-> pii_found,
                 prohibited_content |-> prohibited_content,
                 redactions_made |-> SumValues(pii_found, DOMAIN pii_found),
                 safety_score |-> _calculate_safety_score(pii_found,
                                                          prohibited_content)]
    /\ UNCHANGED << orch_vars, jobs, service_vars >>
    /\ UNCHANGED ext_vars

NextScore == calculate_safety_score_call

SpecScore == InitScore /\ [][NextScore]_vars

---------------------------------------------------------------------------
(* Text and regular expressions (Python's re, as safety_enforcer.py uses it) *)

\* A text is a sequence of characters, each a string of length one.
Lower ==
    {"a", "b", "c", "d", "e", "f", "g", "h", "i", "j", "k", "l", "m", "n",
     "o", "p", "q", "r", "s", "t", "u", "v", "w", "x", "y", "z"}
Upper ==
    {"A", "B", "C", "D", "E", "F", "G", "H", "I", "J", "K", "L", "M", "N",
     "O", "P", "Q", "R", "S", "T", "U", "V", "W", "X", "Y", "Z"}
Digit ==
    {"0", "1", "2", "3", "4", "5", "6", "7", "8", "9"}
Letter == Lower \cup Upper
AlNum == Letter \cup Digit

\* \w for ASCII text.
WordChar == AlNum \cup {"_"}

\* \s for the white space the texts use.
Space == {" "}

\* Pattern nodes.  A pattern is a sequence of nodes:
\*   Cls(S, lo, hi)  between lo and hi characters of S, as many as possible
\*   Many(S, lo)     at least lo characters of S, as many as possible
\*   Boundary        \b
\*   Opt(body)       (?:body)?
\*   Alt(alts)       (?:alt1|alt2|...), tried in this order
\*   NotAhead(alts)  (?!alt1|alt2|...)
\*   Rep(body, n)    (?:body){n}
Cls(S, lo, hi) == [t |-> "cls", chars |-> S, lo |-> lo, hi |-> hi, more |-> FALSE]
Many(S, lo) == [t |-> "cls", chars |-> S, lo |-> lo, hi |-> lo, more |-> TRUE]
One(S) == Cls(S, 1, 1)
Boundary == [t |-> "b"]
Opt(body) == [t |-> "opt", body |-> body]
Alt(alts) == [t |-> "alt", alts |-> alts]
NotAhead(alts) == [t |-> "nla", alts |-> alts]
Rep(body, n) == [t |-> "rep", body |-> body, n |-> n]

\* A literal word under re.IGNORECASE: each letter in either case.
ToUpper(c) ==
    CASE c = "a" -> "A" [] c = "b" -> "B" [] c = "c" -> "C" [] c = "d" -> "D"
      [] c = "e" -> "E" [] c = "f" -> "F" [] c = "g" -> "G" [] c = "h" -> "H"
      [] c = "i" -> "I" [] c = "j" -> "J" [] c = "k" -> "K" [] c = "l" -> "L"
      [] c = "m" -> "M" [] c = "n" -> "N" [] c = "o" -> "O" [] c = "p" -> "P"
      [] c = "q" -> "Q" [] c = "r" -> "R" [] c = "s" -> "S" [] c = "t" -> "T"
      [] c = "u" -> "U" [] c = "v" -> "V" [] c = "w" -> "W" [] c = "x" -> "X"
      [] c = "y" -> "Y" [] c = "z" -> "Z" [] OTHER -> c
Word(w) == [i \in 1..Len(w) |-> One({w[i], ToUpper(w[i])})]

RECURSIVE Repeat(_, _)
Repeat(body, n) == IF n = 0 THEN <<>> ELSE body \o Repeat(body, n - 1)

\* \b at position i of s (between s[i-1] and s[i]).
IsBoundary(s, i) ==
    LET before == i > 1 /\ s[i - 1] \in WordChar
        after == i <= Len(s) /\ s[i] \in WordChar
    IN before # after

\* The number of characters of S at s[i], s[i+1], ..., at most cap.
RECURSIVE RunLen(_, _, _, _)
RunLen(s, i, S, cap) ==
    IF cap = 0 \/ i > Len(s) \/ s[i] \notin S THEN 0
    ELSE 1 + RunLen(s, i + 1, S, cap - 1)

\* re's backtracking match of a pattern at position i of s: the position
\* after the match that re finds first, or 0 when there is no match.
RECURSIVE MatchEnd(_, _, _), MatchCls(_, _, _, _, _), MatchAlt(_, _, _, _)
MatchEnd(nodes, s, i) ==
    IF nodes = <<>> THEN i
    ELSE LET n == Head(nodes)
             rest == Tail(nodes)
         IN CASE n.t = "b" ->
                   IF IsBoundary(s, i) THEN MatchEnd(rest, s, i) ELSE 0
              [] n.t = "cls" ->
                   MatchCls(rest, s, i,
                            RunLen(s, i, n.chars,
                                   IF n.more THEN Len(s) ELSE n.hi),
                            n.lo)
              [] n.t = "opt" ->
                   LET e == MatchEnd(n.body \o rest, s, i)
                   IN IF e # 0 THEN e ELSE MatchEnd(rest, s, i)
              [] n.t = "alt" -> MatchAlt(n.alts, rest, s, i)
              [] n.t = "nla" ->
                   IF MatchAlt(n.alts, <<>>, s, i) # 0 THEN 0
                   ELSE MatchEnd(rest, s, i)
              [] n.t = "rep" -> MatchEnd(Repeat(n.body, n.n) \o rest, s, i)

\* A greedy class: k characters first, then fewer, down to lo.
MatchCls(rest, s, i, k, lo) ==
    IF k < lo THEN 0
    ELSE LET e == MatchEnd(rest, s, i + k)
         IN IF e # 0 THEN e ELSE MatchCls(rest, s, i, k - 1, lo)

MatchAlt(alts, rest, s, i) ==
    IF alts = <<>> THEN 0
    ELSE LET e == MatchEnd(Head(alts) \o rest, s, i)
         IN IF e # 0 THEN e ELSE MatchAlt(Tail(alts), rest, s, i)

\* For each position of s, where the match that starts there ends (0: none).
MatchEnds(pattern, s) == [i \in 1..Len(s) |-> MatchEnd(pattern, s, i)]

\* re.findall / re.sub: the matches from position i on, leftmost first and
\* not overlapping, each as the positions [from, to) it covers.  (No pattern
\* of the enforcer matches the empty text.)
RECURSIVE MatchesFrom(_, _)
MatchesFrom(ends, i) ==
    LET starts == {j \in i..Len(ends) : ends[j] > j}
    IN IF starts = {} THEN <<>>
       ELSE LET from == CHOOSE j \in starts : \A k \in starts : j <= k
            IN << [from |-> from, to |-> ends[from]] >>
               \o MatchesFrom(ends, ends[from])

Matches(pattern, s, i) == MatchesFrom(MatchEnds(pattern, s), i)

\* The text of a match.
Group(s, m) == SubSeq(s, m.from, m.to - 1)

---------------------------------------------------------------------------
(* workers/safety_enforcer.py: scanning a text *)

Separator == {"-", "."} \cup Space

\* The keys of PII_PATTERNS, lines 18-25, in the order of the dict.
PiiOrder == << "email", "phone", "ssn", "credit_card", "ip_address", "api_key" >>

\* \b[A-Za-z0-9._%+-]+@[A-Za-z0-9.-]+\.[A-Z|a-z]{2,}\b
EmailPattern ==
    << Boundary,
       Many(AlNum \cup {".", "_", "%", "+", "-"}, 1),
       One({"@"}),
       Many(AlNum \cup {".", "-"}, 1),
       One({"."}),
       Many(Letter \cup {"|"}, 2),
       Boundary >>

\* \b(?:\+?1[-.\s]?)?\(?([0-9]{3})\)?[-.\s]?([0-9]{3})[-.\s]?([0-9]{4})\b
PhonePattern ==
    << Boundary,
       Opt(<< Cls({"+"}, 0, 1), One({"1"}), Cls(Separator, 0, 1) >>),
       Cls({"("}, 0, 1), Cls(Digit, 3, 3), Cls({")"}, 0, 1),
       Cls(Separator, 0, 1), Cls(Digit, 3, 3),
       Cls(Separator, 0, 1), Cls(Digit, 4, 4),
       Boundary >>

\* \b(?!000|666|9\d{2})\d{3}[-.\s]?(?!00)\d{2}[-.\s]?(?!0000)\d{4}\b
SsnPattern ==
    << Boundary,
       NotAhead(<< Word(<<"0", "0", "0">>), Word(<<"6", "6", "6">>),
                   << One({"9"}), Cls(Digit, 2, 2) >> >>),
       Cls(Digit, 3, 3), Cls(Separator, 0, 1),
       NotAhead(<< Word(<<"0", "0">>) >>),
       Cls(Digit, 2, 2), Cls(Separator, 0, 1),
       NotAhead(<< Word(<<"0", "0", "0", "0">>) >>),
       Cls(Digit, 4, 4),
       Boundary >>

\* \b(?:4[0-9]{12}(?:[0-9]{3})?|5[1-5][0-9]{14}|3[47][0-9]{13}
\*    |3[0-9]{13}|6(?:011|5[0-9]{2})[0-9]{12})\b
CreditCardPattern ==
    << Boundary,
       Alt(<< << One({"4"}), Cls(Digit, 12, 12),
                 Opt(<< Cls(Digit, 3, 3) >>) >>,
              << One({"5"}), One({"1", "2", "3", "4", "5"}),
                 Cls(Digit, 14, 14) >>,
              << One({"3"}), One({"4", "7"}), Cls(Digit, 13, 13) >>,
              << One({"3"}), Cls(Digit, 13, 13) >>,
              << One({"6"}),
                 Alt(<< Word(<<"0", "1", "1">>),
                        << One({"5"}), Cls(Digit, 2, 2) >> >>),
                 Cls(Digit, 12, 12) >> >>),
       Boundary >>

\* \b(?:[0-9]{1,3}\.){3}[0-9]{1,3}\b
IpAddressPattern ==
    << Boundary,
       Rep(<< Cls(Digit, 1, 3), One({"."}) >>, 3),
       Cls(Digit, 1, 3),
       Boundary >>

\* \b[A-Za-z0-9]{32,}\b
ApiKeyPattern ==
    << Boundary, Many(AlNum, 32), Boundary >>

\* PII_PATTERNS, lines 18-25.
PII_PATTERNS ==
    [pii_type \in Range(PiiOrder) |->
        CASE pii_type = "email" -> EmailPattern
          [] pii_type = "phone" -> PhonePattern
          [] pii_type = "ssn" -> SsnPattern
          [] pii_type = "credit_card" -> CreditCardPattern
          [] pii_type = "ip_address" -> IpAddressPattern
          [] pii_type = "api_key" -> ApiKeyPattern]

\* PROHIBITED_PATTERNS["violence"].
ViolencePatterns ==
    << << Boundary,
    Alt(<< Word(<<"k", "i", "l", "l">>),
           Word(<<"m", "u", "r", "d", "e", "r">>),
           Word(<<"a", "s", "s", "a", "s", "s", "i", "n", "a", "t", "e">>),
           Word(<<"b", "o", "m", "b">>),
           Word(<<"t", "e", "r", "r", "o", "r", "i", "s", "t">>),
           Word(<<"w", "e", "a", "p", "o", "n">>) >>),
    Boundary >>,
       << Boundary,
       Alt(<< Word(<<"v", "i", "o", "l", "e", "n", "c", "e">>),
              Word(<<"v", "i", "o", "l", "e", "n", "t">>),
              Word(<<"a", "t", "t", "a", "c", "k">>),
              Word(<<"a", "s", "s", "a", "u", "l", "t">>) >>),
       Boundary >> >>

\* PROHIBITED_PATTERNS["hate_speech"].
HateSpeechPatterns ==
    << << Boundary,
    Alt(<< Word(<<"h", "a", "t", "e">>),
           Word(<<"r", "a", "c", "i", "s", "t">>),
           Word(<<"d", "i", "s", "c", "r", "i", "m", "i", "n", "a", "t", "i", "o", "n">>),
           Word(<<"b", "i", "g", "o", "t">>) >>),
    Boundary >> >>

\* PROHIBITED_PATTERNS["illegal"].
IllegalPatterns ==
    << << Boundary,
    Alt(<< Word(<<"i", "l", "l", "e", "g", "a", "l">>),
           Word(<<"d", "r", "u", "g">>),
           Word(<<"n", "a", "r", "c", "o", "t", "i", "c">>),
           Word(<<"c", "o", "c", "a", "i", "n", "e">>),
           Word(<<"h", "e", "r", "o", "i", "n">>) >>),
    Boundary >>,
       << Boundary,
       Alt(<< Word(<<"f", "r", "a", "u", "d">>),
              Word(<<"s", "c", "a", "m">>),
              Word(<<"m", "o", "n", "e", "y", " ", "l", "a", "u", "n", "d", "e", "r", "i", "n", "g">>) >>),
       Boundary >> >>

\* PROHIBITED_PATTERNS, lines 28-40: the patterns of each category.
ProhibitedOrder == << "violence", "hate_speech", "illegal" >>

PROHIBITED_PATTERNS ==
    [category \in Range(ProhibitedOrder) |->
        CASE category = "violence" -> ViolencePatterns
          [] category = "hate_speech" -> HateSpeechPatterns
          [] category = "illegal" -> IllegalPatterns]

\* Variant that splits at the first @ only.
_redact_email_first_at(email) ==
    LET ats == {i \in 1..Len(email) : email[i] = "@"}
    IN IF ats # {}
       THEN LET at == CHOOSE i \in ats : \A j \in ats : i <= j
                username == SubSeq(email, 1, at - 1)
                domain == SubSeq(email, at + 1, Len(email))
                redacted_username ==
                    IF Len(username) > 2
                    THEN << username[1] >>
                         \o [k \in 1..(Len(username) - 2) |-> "*"]
                         \o << username[Len(username)] >>
                    ELSE << "*", "*", "*" >>
            IN redacted_username \o << "@" >> \o domain
       ELSE << "[", "E", "M", "A", "I", "L", "_",
               "R", "E", "D", "A", "C", "T", "E", "D", "]" >>

\* _redact_email, lines 144-152.  email.split("@") has two parts exactly when
\* email holds one @.
_redact_email(email) ==
    LET ats == {i \in 1..Len(email) : email[i] = "@"}
    IN IF Cardinality(ats) = 1
       THEN LET at == CHOOSE i \in ats : TRUE
                username == SubSeq(email, 1, at - 1)
                domain == SubSeq(email, at + 1, Len(email))
                redacted_username ==
                    IF Len(username) > 2
                    THEN << username[1] >>
                         \o [k \in 1..(Len(username) - 2) |-> "*"]
                         \o << username[Len(username)] >>
                    ELSE << "*", "*", "*" >>
            IN redacted_username \o << "@" >> \o domain
       ELSE << "[", "E", "M", "A", "I", "L", "_",
               "R", "E", "D", "A", "C", "T", "E", "D", "]" >>

\* _scrub_pii lines 99-140: what a match of each type is replaced by.
Replacement(pii_type, matched) ==
    CASE pii_type = "email" -> _redact_email(matched)
      [] pii_type = "phone" -> <<"[", "P", "H", "O", "N", "E", "_", "R", "E", "D", "A", "C", "T", "E", "D", "]">>
      [] pii_type = "ssn" -> <<"X", "X", "X", "-", "X", "X", "-", "X", "X", "X", "X">>
      [] pii_type = "credit_card" -> <<"[", "C", "A", "R", "D", "_", "R", "E", "D", "A", "C", "T", "E", "D", "]">>
      [] pii_type = "ip_address" -> <<"X", "X", "X", ".", "X", "X", "X", ".", "X", "X", "X", ".", "X", "X", "X">>
      [] pii_type = "api_key" -> <<"[", "A", "P", "I", "_", "K", "E", "Y", "_", "R", "E", "D", "A", "C", "T", "E", "D", "]">>

\* re.sub: s from position i on, with the matches ms replaced.
RECURSIVE Substitute(_, _, _, _)
Substitute(pii_type, s, ms, i) ==
    IF ms = <<>> THEN SubSeq(s, i, Len(s))
    ELSE SubSeq(s, i, Head(ms).from - 1)
         \o Replacement(pii_type, Group(s, Head(ms)))
         \o Substitute(pii_type, s, Tail(ms), Head(ms).to)

\* Variant that records a count for the types found only.
RECURSIVE ScrubLoop_found_only(_, _, _)
ScrubLoop_found_only(k, cleaned, pii_counts) ==
    IF k > Len(PiiOrder)
    THEN [cleaned_content |-> cleaned, pii_counts |-> pii_counts]
    ELSE LET pii_type == PiiOrder[k]
             matches == Matches(PII_PATTERNS[pii_type], cleaned, 1)
             counts1 == IF matches # <<>>
                        THEN [t \in DOMAIN pii_counts \cup {pii_type} |->
                                 IF t = pii_type THEN Len(matches)
                                 ELSE pii_counts[t]]
                        ELSE pii_counts
         IN ScrubLoop_found_only(k + 1,
                      IF matches # <<>>
                      THEN Substitute(pii_type, cleaned, matches, 1)
                      ELSE cleaned,
                      counts1)

\* _scrub_pii, the loop of lines 93-140 from the k-th pattern on: count the
\* matches in the text as cleaned so far, then replace them.
RECURSIVE ScrubLoop(_, _, _)
ScrubLoop(k, cleaned, pii_counts) ==
    IF k > Len(PiiOrder)
    THEN [cleaned_content |-> cleaned, pii_counts |-> pii_counts]
    ELSE LET pii_type == PiiOrder[k]
             matches == Matches(PII_PATTERNS[pii_type], cleaned, 1)
             counts1 == [t \in DOMAIN pii_counts \cup {pii_type} |->
                            IF t = pii_type THEN Len(matches)
                            ELSE pii_counts[t]]
         IN ScrubLoop(k + 1,
                      IF matches # <<>>
                      THEN Substitute(pii_type, cleaned, matches, 1)
                      ELSE cleaned,
                      counts1)

\* _scrub_pii, lines 88-142.
_scrub_pii(text) == ScrubLoop(1, text, EmptyDict)

\* The texts the patterns of one category find (lines 160-162).
RECURSIVE FindAll(_, _)
FindAll(patterns, s) ==
    IF patterns = <<>> THEN {}
    ELSE LET ms == Matches(Head(patterns), s, 1)
         IN {Group(s, ms[i]) : i \in 1..Len(ms)} \cup FindAll(Tail(patterns), s)

\* _check_prohibited_content, lines 154-167: the categories with matches,
\* each with the set of its matched texts.
_check_prohibited_content(text) ==
    LET found == [c \in Range(ProhibitedOrder) |->
                     FindAll(PROHIBITED_PATTERNS[c], text)]
    IN [c \in {x \in Range(ProhibitedOrder) : found[x] # {}} |-> found[c]]

\* _log_safety_check lines 201-213: the AuditLog row, with `context or {}`.
SafetyCheckRow(job_id, report, context) ==
    [event_type |-> "safety_check", job_id |-> job_id,
     event_data |-> [safety_report |-> report,
                     context |-> IF context = NoneData THEN EmptyDict
                                 ELSE context]]

\* _raise_safety_alert lines 218-232: the AuditLog row.
SafetyAlertRow(job_id, report) ==
    [event_type |-> "safety_alert", job_id |-> job_id,
     event_data |-> [alert_type |-> "low_safety_score",
                     safety_score |-> report.safety_score,
                     pii_found |-> report.pii_found,
                     prohibited_content |-> report.prohibited_content,
                     job_id |-> job_id]]

\* Variant that alerts from 0.7 downwards.
enforce_safety_alert_at(text, job_id, context) ==
    LET scrubbed == _scrub_pii(text)
        prohibited_report == _check_prohibited_content(scrubbed.cleaned_content)
        report ==
            [original_length |-> Len(text),
             pii_found |-> scrubbed.pii_counts,
             prohibited_content |-> prohibited_report,
             redactions_made |-> SumValues(scrubbed.pii_counts,
                                           DOMAIN scrubbed.pii_counts),
             safety_score |-> _calculate_safety_score(scrubbed.pii_counts,
                                                      prohibited_report)]
    IN [cleaned_content |-> scrubbed.cleaned_content,
        safety_report |-> report,
        rows |-> << SafetyCheckRow(job_id, report, context) >>
                 \o (IF report.safety_score <= 70
                     THEN << SafetyAlertRow(job_id, report) >> ELSE <<>>)]

\* enforce_safety, lines 45-86 (context is None unless given): the text and
\* the report it returns, and the rows it adds to the audit log (0.7 is 70
\* hundredths).
enforce_safety(text, job_id, context) ==
    LET scrubbed == _scrub_pii(text)
        prohibited_report == _check_prohibited_content(scrubbed.cleaned_content)
        report ==
            [original_length |-> Len(text),
             pii_found |-> scrubbed.pii_counts,
             prohibited_content |-> prohibited_report,
             redactions_made |-> SumValues(scrubbed.pii_counts,
                                           DOMAIN scrubbed.pii_counts),
             safety_score |-> _calculate_safety_score(scrubbed.pii_counts,
                                                      prohibited_report)]
    IN [cleaned_content |-> scrubbed.cleaned_content,
        safety_report |-> report,
        rows |-> << SafetyCheckRow(job_id, report, context) >>
                 \o (IF report.safety_score < 70
                     THEN << SafetyAlertRow(job_id, report) >> ELSE <<>>)]

\* The literals the scanned texts are made of.
Emails ==
    { <<"b", "o", "b", "@", "e", "x", ".", "c", "o", "m">>,
      <<"a", "b", "@", "c", ".", "i", "o">>,
      <<"a", "@", "5", "5", "5", "1", "2", "3", "4", "5", "6", "7", ".", "i", "o">> }
Phones ==
    { <<"5", "5", "5", "-", "1", "2", "3", "-", "4", "5", "6", "7">> }
NationalIds ==
    { <<"1", "2", "3", "-", "4", "5", "-", "6", "7", "8", "9">> }
PlainWords ==
    { <<"k", "i", "l", "l">>,
      <<"H", "a", "t", "e">> }

\* Seven IP addresses: more PII hits than the cap of the deduction counts.
SevenAddresses ==
    <<"1", ".", "1", ".", "1", ".", "1", " ", "1", ".", "1", ".", "1", ".", "2", " ",
    "1", ".", "1", ".", "1", ".", "3", " ", "1", ".", "1", ".", "1", ".", "4">>
    \o <<" ", "1", ".", "1", ".", "1", ".", "5", " ", "1", ".", "1", ".", "1", ".", "6", " ", "1", ".", "1", ".", "1", ".", "7">>

ScanPieces == Emails \cup Phones \cup NationalIds \cup PlainWords

\* Most pieces of one text.
MaxPieces == 3

\* " ".join(pieces).
RECURSIVE Join(_)
Join(pieces) ==
    IF pieces = <<>> THEN <<>>
    ELSE IF Len(pieces) = 1 THEN pieces[1]
    ELSE pieces[1] \o << " " >> \o Join(Tail(pieces))

PieceLists == UNION {[1..n -> ScanPieces] : n \in 0..MaxPieces}

\* The texts given to enforce_safety: up to MaxPieces literals, or the seven
\* addresses with or without a prohibited word.
ScanTexts ==
    {Join(pieces) : pieces \in PieceLists}
    \cup {SevenAddresses}
    \cup {SevenAddresses \o << " " >> \o w : w \in PlainWords}

InitScan ==
    /\ content \in ScanTexts
    /\ cleaned_content = <<>>
    /\ WalkIdle /\ BuildIdle /\ JobsIdle /\ LateIdle
    /\ OrchIdle
    /\ jobs = EmptyDict
    /\ ServiceIdle
    /\ SafetyIdle

\* The call of enforce_safety on the text, for job_1.
enforce_safety_call ==
    /\ last_call = NoCall
    /\ LET r == enforce_safety(content, JobId, NoneData)
       IN /\ cleaned_content' = r.cleaned_content
          /\ safety_report' = r.safety_report
          /\ findings' = [pii_found |-> r.safety_report.pii_found,
                          prohibited_content |->
                              r.safety_report.prohibited_content]
          /\ audit_log' = audit_log \o r.rows
          /\ last_call' = [op |-> "enforce_safety", seq |-> 1,
                           job_id |-> JobId, outcome |-> "returned",
                           logged_before |-> Len(audit_log)]
    /\ UNCHANGED << orch_vars, jobs, svc_job_costs, created_at, returned >>
    /\ UNCHANGED << content, walk_vars, build_vars, workers, late_vars >>

NextScan == enforce_safety_call

SpecScan == InitScan /\ [][NextScan]_vars

---------------------------------------------------------------------------
(* safety_enforcer.py: _redact_email on arbitrary strings *)

\* The length of the strings _redact_email is applied to.
MaxEmailLen == 5

\* The strings given to _redact_email: any text over a small alphabet, with
\* any number of @ characters.
EmailInputs ==
    UNION {[1..n -> {"a", "b", ".", "@"}] : n \in 0..MaxEmailLen}

InitRedact ==
    /\ content \in EmailInputs
    /\ cleaned_content = <<>>
    /\ WalkIdle /\ BuildIdle /\ JobsIdle /\ LateIdle
    /\ OrchIdle
    /\ jobs = EmptyDict
    /\ ServiceIdle
    /\ SafetyIdle

\* One call of _redact_email(content).
redact_email_call ==
    /\ last_call = NoCall
    /\ cleaned_content' = _redact_email(content)
    /\ last_call' = [op |-> "_redact_email", seq |-> 1]
    /\ UNCHANGED << orch_vars, jobs, svc_job_costs, created_at, audit_log,
                    returned, safety_vars, content, walk_vars, build_vars,
                    workers, late_vars >>

NextRedact == redact_email_call

SpecRedact == InitRedact /\ [][NextRedact]_vars

---------------------------------------------------------------------------
(* safety_enforcer.py: validate_input and validate_output *)

\* The dict objects a validated structure is made of.  A dict value is a
\* reference to one of them, so that a dict can hold itself.
MaxObjects == 2

\* The depth of nested calls at which the interpreter raises RecursionError.
RecursionLimit == 4

\* The keys of a dict, in the order its items() yields them.
FieldOrder == << "a", "b" >>

\* A value of a dict: a str, an int, a list of str, a reference to a dict of
\* the structure, or (in results) a new dict with its own fields.
Value(kind, text, items, ref, fields) ==
    [kind |-> kind, text |-> text, items |-> items, ref |-> ref,
     fields |-> fields]

\* The values of the validated dicts: a string with an email address, a
\* number, a list of one such string, and the dicts of the structure.
FieldValues ==
    LET mail == << "b", "o", "b", "@", "e", "x", ".", "c", "o", "m" >>
    IN {Value("str", mail, <<>>, 0, EmptyDict),
        Value("int", <<>>, <<>>, 0, EmptyDict),
        Value("list", <<>>, << mail >>, 0, EmptyDict)}
       \cup {Value("dict", <<>>, <<>>, id, EmptyDict) : id \in (1..MaxObjects)}

\* The structures given to the walks: object 1 is the dict passed in.
Structures ==
    [(1..MaxObjects) -> UNION {[ks -> FieldValues] : ks \in SUBSET Range(FieldOrder)}]

\* dict.items() of a dict of the structure, as the list of its keys.
Items(d) == SelectSeq(FieldOrder, LAMBDA k : k \in DOMAIN d)

\* cleaned_data[key] = v.
Put(d, key, v) == [k \in DOMAIN d \cup {key} |-> IF k = key THEN v ELSE d[k]]

\* Variant that returns the string fields only.
RECURSIVE InputLoop_strings_only(_, _, _, _, _)
InputLoop_strings_only(input_data, job_id, todo, cleaned, rows) ==
    IF todo = <<>> THEN [outcome |-> "returned", fields |-> cleaned,
                         rows |-> rows, depth |-> 1]
    ELSE LET key == Head(todo)
             value == input_data[key]
         IN IF value.kind = "str"
            THEN LET r == enforce_safety(value.text, job_id,
                                         [input_field |-> key])
                 IN InputLoop_strings_only(input_data, job_id, Tail(todo),
                              Put(cleaned, key,
                                  [value EXCEPT !.text = r.cleaned_content]),
                              rows \o r.rows)
            ELSE InputLoop_strings_only(input_data, job_id, Tail(todo),
                                        cleaned, rows)

\* validate_input, lines 238-249: the loop over input_data.items(), from the
\* keys still to visit; returns cleaned_data and the audit rows written.
RECURSIVE InputLoop(_, _, _, _, _)
InputLoop(input_data, job_id, todo, cleaned, rows) ==
    IF todo = <<>> THEN [outcome |-> "returned", fields |-> cleaned,
                         rows |-> rows, depth |-> 1]
    ELSE LET key == Head(todo)
             value == input_data[key]
         IN IF value.kind = "str"
            THEN LET r == enforce_safety(value.text, job_id,
                                         [input_field |-> key])
                 IN InputLoop(input_data, job_id, Tail(todo),
                              Put(cleaned, key,
                                  [value EXCEPT !.text = r.cleaned_content]),
                              rows \o r.rows)
            ELSE InputLoop(input_data, job_id, Tail(todo),
                           Put(cleaned, key, value), rows)

validate_input(heap, id, job_id) ==
    InputLoop(heap[id], job_id, Items(heap[id]), EmptyDict, <<>>)

\* validate_output, lines 251-265.  depth is the number of validate_output
\* calls on the stack; a call beyond RecursionLimit raises RecursionError,
\* which nothing catches.  The rows written before the error stay written.
RECURSIVE validate_output(_, _, _, _), OutputLoop(_, _, _, _, _, _, _, _)
validate_output(heap, id, job_id, depth) ==
    IF depth > RecursionLimit
    THEN [outcome |-> "RecursionError", fields |-> EmptyDict, rows |-> <<>>,
          depth |-> depth]
    ELSE OutputLoop(heap, id, job_id, depth, Items(heap[id]), EmptyDict,
                    <<>>, depth)

\* The loop over output_data.items(), from the keys still to visit.
OutputLoop(heap, id, job_id, depth, todo, cleaned, rows, deepest) ==
    IF todo = <<>> THEN [outcome |-> "returned", fields |-> cleaned,
                         rows |-> rows, depth |-> deepest]
    ELSE LET key == Head(todo)
             value == heap[id][key]
         IN CASE value.kind = "str" ->
                   LET r == enforce_safety(value.text, job_id,
                                           [output_field |-> key])
                   IN OutputLoop(heap, id, job_id, depth, Tail(todo),
                                 Put(cleaned, key,
                                     [value EXCEPT !.text = r.cleaned_content]),
                                 rows \o r.rows, deepest)
              [] value.kind = "dict" ->
                   LET r == validate_output(heap, value.ref, job_id, depth + 1)
                   IN IF r.outcome = "returned"
                      THEN OutputLoop(heap, id, job_id, depth, Tail(todo),
                                      Put(cleaned, key,
                                          Value("dict", <<>>, <<>>, 0, r.fields)),
                                      rows \o r.rows, Max(deepest, r.depth))
                      ELSE [r EXCEPT !.rows = rows \o r.rows]
              [] OTHER ->
                   OutputLoop(heap, id, job_id, depth, Tail(todo),
                              Put(cleaned, key, value), rows, deepest)

InitWalk ==
    /\ data \in Structures
    /\ cleaned_data = NoneData
    /\ ScanIdle /\ BuildIdle /\ JobsIdle /\ LateIdle
    /\ OrchIdle
    /\ jobs = EmptyDict
    /\ ServiceIdle
    /\ SafetyIdle

\* What a finished call leaves: the result, the rows, the call's record.
WalkDone(op, r) ==
    /\ cleaned_data' = IF r.outcome = "returned" THEN r.fields ELSE NoneData
    /\ audit_log' = audit_log \o r.rows
    /\ last_call' = [op |-> op, seq |-> 1, job_id |-> JobId,
                     outcome |-> r.outcome, depth |-> r.depth]
    /\ UNCHANGED << orch_vars, jobs, svc_job_costs, created_at, returned,
                    safety_vars, scan_vars, data, build_vars, workers, late_vars >>

\* await validate_input(input_data, job_id) on the dict that is object 1.
validate_input_call ==
    /\ last_call = NoCall
    /\ WalkDone("validate_input", validate_input(data, 1, JobId))

\* await validate_output(output_data, job_id) on the dict that is object 1.
validate_output_call ==
    /\ last_call = NoCall
    /\ WalkDone("validate_output", validate_output(data, 1, JobId, 1))

NextWalk == validate_input_call \/ validate_output_call

SpecWalk == InitWalk /\ [][NextWalk]_vars

\* validate_input alone, on the same structures.
NextInput == validate_input_call

SpecInput == InitWalk /\ [][NextInput]_vars

---------------------------------------------------------------------------
(* crew_builder.py: generate_workflows_config, and the order the
   orchestrator gives the generated workflow *)

\* The longest list of task definitions given to the builder.
MaxTasks == 4

\* Task definitions as the caller writes them: any of the fields may be
\* missing (NoneStr), the builder fills in defaults.
TaskDefinitions ==
    [description : {NoneStr, "Research"}, agent : {NoneStr, "agent_9"}]

TaskDataLists == UNION {[1..n -> TaskDefinitions] : n \in 0..MaxTasks}

\* f"task_{n}"
TaskName(n) == "task_" \o ToString(n)

\* Variant in which every task but the first depends on the first task.
_generate_task_dependencies_on_first(task_list) ==
    [id \in {TaskName(i) : i \in 1..Len(task_list)} |->
        LET i == CHOOSE k \in 1..Len(task_list) : TaskName(k) = id
        IN IF i > 1 THEN << TaskName(1) >> ELSE <<>>]

\* _generate_task_dependencies, lines 87-99 (i counts from 1 here, the
\* enumerate index from 0).
_generate_task_dependencies(task_list) ==
    [id \in {TaskName(i) : i \in 1..Len(task_list)} |->
        LET i == CHOOSE k \in 1..Len(task_list) : TaskName(k) = id
        IN IF i > 1 THEN << TaskName(i - 1) >> ELSE <<>>]

\* generate_workflows_config, lines 61-85: the tasks dict (keys is its key
\* order), with the defaults of the fields the orchestrator reads, and the
\* dependencies.
generate_workflows_config(task_list) ==
    [version |-> "1.0.0",
     keys |-> [i \in 1..Len(task_list) |-> TaskName(i)],
     tasks |-> [id \in {TaskName(i) : i \in 1..Len(task_list)} |->
                  LET i == CHOOSE k \in 1..Len(task_list) : TaskName(k) = id
                      task == task_list[i]
                  IN [description |->
                          IF task.description = NoneStr
                          THEN "Task " \o ToString(i) ELSE task.description,
                      agent |->
                          IF task.agent = NoneStr
                          THEN "agent_" \o ToString(i) ELSE task.agent]],
     dependencies |-> _generate_task_dependencies(task_list)]

InitBuild ==
    /\ tasks_data \in TaskDataLists
    /\ workflows_config = NoneData
    /\ ScanIdle /\ WalkIdle /\ JobsIdle /\ LateIdle
    /\ OrchIdle
    /\ jobs = EmptyDict
    /\ ServiceIdle
    /\ SafetyIdle

\* build_crew line 107: workflows_config = generate_workflows_config(tasks_data),
\* stored as the crew's workflow.
build_crew ==
    /\ workflows_config = NoneData
    /\ workflows_config' = generate_workflows_config(tasks_data)
    /\ tasks' = workflows_config'.keys
    /\ dependencies' = workflows_config'.dependencies
    /\ UNCHANGED << job_costs, pc, execution_order, task_outputs, idx, exc,
                    status_log, executed, tracked >>
    /\ UNCHANGED << jobs, service_vars, safety_vars, scan_vars, walk_vars,
                    tasks_data, workers, late_vars >>

\* _execute_workflow lines 60-66 on the generated workflow.
order_generated_workflow ==
    /\ workflows_config # NoneData
    /\ pc = "idle"
    /\ LET r == _topological_sort(tasks, dependencies)
       IN /\ exc' = r.error
          /\ execution_order' = r.value
          /\ pc' = IF r.raised THEN "except" ELSE "loop"
    /\ UNCHANGED << tasks, dependencies, job_costs, task_outputs, idx,
                    status_log, executed, tracked >>
    /\ UNCHANGED << jobs, service_vars, safety_vars, ext_vars >>

NextBuild == build_crew \/ order_generated_workflow

SpecBuild == InitBuild /\ [][NextBuild]_vars

---------------------------------------------------------------------------
(* routers/jobs.py run_crew called for several jobs: each job gets its own
   OrchestratorWorker, whose coroutines interleave at their awaits *)

\* The longest generated workflow a concurrent job runs.
MaxJobTasks == 2

\* jobs.py line 51, OrchestratorWorker(): a worker with its own CostTracker,
\* for a crew whose workflow has n generated tasks.
NewWorker(n) ==
    [pc |-> "idle",
     workflow |-> generate_workflows_config([i \in 1..n |->
                      [description |-> NoneStr, agent |-> NoneStr]]),
     job_costs |-> EmptyDict, execution_order |-> <<>>,
     task_outputs |-> EmptyDict, idx |-> 1, exc |-> NoException,
     tracked |-> <<>>]

InitJobs ==
    /\ workers \in [CostJobs -> {NewWorker(n) : n \in 1..MaxJobTasks}]
    /\ jobs = EmptyDict
    /\ ScanIdle /\ WalkIdle /\ BuildIdle /\ LateIdle
    /\ OrchIdle
    /\ ServiceIdle
    /\ SafetyIdle

\* A step of the coroutine of job j: its worker becomes w, the jobs table tbl.
WorkerStep(j, w, tbl) ==
    /\ workers' = [workers EXCEPT ![j] = w]
    /\ jobs' = tbl
    /\ UNCHANGED << orch_vars, service_vars, safety_vars, scan_vars,
                    walk_vars, build_vars, late_vars >>

\* run_crew lines 38-51 for job j: insert the row, create the worker's task.
job_run_crew(j) ==
    /\ workers[j].pc = "idle"
    /\ WorkerStep(j, [workers[j] EXCEPT !.pc = "scheduled"],
                  [k \in DOMAIN jobs \cup {j} |->
                      IF k = j THEN NewJob ELSE jobs[k]])

\* execute_crew line 26 and _execute_workflow lines 60-66 for job j: status
\* running, then the order of the tasks.
job_begin(j) ==
    /\ workers[j].pc = "scheduled"
    /\ LET w == workers[j]
           r == _topological_sort(w.workflow.keys, w.workflow.dependencies)
       IN WorkerStep(j,
                     [w EXCEPT !.pc = IF r.raised THEN "except" ELSE "loop",
                               !.exc = r.error,
                               !.execution_order = r.value],
                     _update_job_status(jobs, j, "running"))

\* _execute_workflow line 80 for job j: the next task is awaited.
job_task_start(j) ==
    /\ workers[j].pc = "loop"
    /\ workers[j].idx <= Len(workers[j].execution_order)
    /\ WorkerStep(j, [workers[j] EXCEPT !.pc = "in_task"], jobs)

\* _execute_task lines 111-126 for job j: the execution raises, or its cost
\* is tracked in the worker's own ledger and then either agent_config.get
\* (line 121) raises or the result is stored.
job_task_finish(j) ==
    /\ workers[j].pc = "in_task"
    /\ LET w == workers[j]
           task_id == w.execution_order[w.idx]
           call == [task |-> task_id, cost |-> TaskCost, tokens |-> TaskTokens]
       IN \/ \E m \in ExecutorMessages :
                WorkerStep(j, [w EXCEPT !.pc = "except",
                                        !.exc = [type |-> "ExecutorError",
                                                 msg |-> m]],
                           jobs)
          \/ WorkerStep(j,
                        [w EXCEPT !.pc = "except",
                                  !.exc = AttributeError,
                                  !.job_costs =
                                      track_task_cost(@, j, task_id, TaskCost,
                                                      TaskTokens),
                                  !.tracked = Append(@, call)],
                        jobs)
          \/ WorkerStep(j,
                        [w EXCEPT !.pc = "loop",
                                  !.idx = @ + 1,
                                  !.job_costs =
                                      track_task_cost(@, j, task_id, TaskCost,
                                                      TaskTokens),
                                  !.tracked = Append(@, call),
                                  !.task_outputs =
                                      [t \in DOMAIN @ \cup {task_id} |->
                                          IF t = task_id THEN TaskResult(task_id)
                                          ELSE @[t]]],
                        jobs)

\* execute_crew lines 34-44 for job j.
job_complete(j) ==
    /\ workers[j].pc = "loop"
    /\ workers[j].idx > Len(workers[j].execution_order)
    /\ LET w == workers[j]
       IN WorkerStep(j, [w EXCEPT !.pc = "done"],
                     _update_job_completion(
                         jobs, j, "completed",
                         WorkflowOutput(w.task_outputs, w.execution_order),
                         get_job_cost(w.job_costs, j), NoneStr))

\* execute_crew lines 46-50 for job j.
job_except(j) ==
    /\ workers[j].pc = "except"
    /\ WorkerStep(j, [workers[j] EXCEPT !.pc = "done"],
                  _update_job_completion(jobs, j, "failed", NoneData, 0,
                                         workers[j].exc.msg))

NextJobs ==
    \E j \in CostJobs :
        \/ job_run_crew(j)
        \/ job_begin(j)
        \/ job_task_start(j)
        \/ job_task_finish(j)
        \/ job_complete(j)
        \/ job_except(j)

SpecJobs == InitJobs /\ [][NextJobs]_vars

---------------------------------------------------------------------------
(* OrchestratorWorker._execute_task lines 104-108: the context of a task,
   built from the outputs of the tasks that ran before it *)

\* Longest context list of a task config.
MaxContext == 3

\* An id that a context list may name although the workflow has no such task.
ForeignTask == "task_9"

\* Variant that takes previous_outputs.get(context_task, {}) for every id of
\* the list.
ContextLoop_get(context_list, previous_outputs, built) ==
    LET step[i \in 0..Len(context_list)] ==
          IF i = 0 THEN built
          ELSE Append(step[i - 1],
                      IF context_list[i] \in DOMAIN previous_outputs
                      THEN previous_outputs[context_list[i]] ELSE EmptyDict)
    IN step[Len(context_list)]

\* Lines 106-108: for context_task in task_config.get("context", []):
\*     if context_task in previous_outputs:
\*         context.append(previous_outputs[context_task])
ContextLoop(context_list, previous_outputs, built) ==
    LET step[i \in 0..Len(context_list)] ==
          IF i = 0 THEN built
          ELSE IF context_list[i] \in DOMAIN previous_outputs
               THEN Append(step[i - 1], previous_outputs[context_list[i]])
               ELSE step[i - 1]
    IN step[Len(context_list)]

\* The context lists of a task config: ids of the workflow or not, in any
\* order, repeats allowed.
ContextLists ==
    UNION {[1..n -> TaskIds \cup {ForeignTask}] : n \in 0..MaxContext}

\* Some of the tasks have run and their results are recorded; a task with
\* some context list is about to execute.
InitContext ==
    /\ context_tasks \in ContextLists
    /\ task_context = <<>>
    /\ \E done \in SUBSET TaskIds :
          task_outputs = [t \in done |-> TaskResult(t)]
    /\ tasks = <<>>
    /\ dependencies = EmptyDict
    /\ job_costs = EmptyDict
    /\ pc = "in_task"
    /\ execution_order = <<>>
    /\ idx = 1
    /\ exc = NoException
    /\ status_log = <<>>
    /\ executed = <<>>
    /\ tracked = <<>>
    /\ jobs = EmptyDict
    /\ ServiceIdle
    /\ SafetyIdle
    /\ ScanIdle /\ WalkIdle /\ BuildIdle /\ JobsIdle /\ CoIdle

\* _execute_task lines 104-108: context = [] (line 105), then the loop.
build_context ==
    /\ pc = "in_task"
    /\ task_context' = ContextLoop(context_tasks, task_outputs, <<>>)
    /\ pc' = "context_built"
    /\ UNCHANGED << tasks, dependencies, job_costs, execution_order,
                    task_outputs, idx, exc, status_log, executed, tracked >>
    /\ UNCHANGED << jobs, service_vars, safety_vars, scan_vars, walk_vars,
                    build_vars, workers, context_tasks, coroutines >>

NextContext == build_context

SpecContext == InitContext /\ [][NextContext]_vars

---------------------------------------------------------------------------
(* workers/cost_tracker.py on the event loop: track_usage and
   update_job_final_cost as coroutines, in the steps between the awaits at
   which they are suspended, interleaved in every order *)

\* Coroutines started in one behaviour.
MaxCoroutines == 2

\* The calls made concurrently: 5 USD, and 11 USD on an unknown model.
AsyncUsages ==
    { [model |-> "gpt-3.5-turbo", input_tokens |-> 5000000, output_tokens |-> 0],
      [model |-> UnknownModel, input_tokens |-> 0, output_tokens |-> 183334] }

\* The coroutines suspended at an await.
InFlight == {c \in DOMAIN coroutines : coroutines[c].pc # "returned"}

\* dict lookup with the default of `.get(job_id, {...})`.
EntryOf(costs, job_id) ==
    IF job_id \in DOMAIN costs THEN costs[job_id] ELSE ZeroCost

\* The coroutines started in the behaviour; coroutine 0 is a call that
\* returned before.
Started == DOMAIN coroutines \ {0}

\* A track_usage call of 5 USD for task_1 of job_1 that has returned.
EarlierCall ==
    LET u == [model |-> "gpt-3.5-turbo", input_tokens |-> 5000000,
              output_tokens |-> 0]
        cost == CHOOSE x \in _calculate_cost(u.model, u.input_tokens,
                                             u.output_tokens) : TRUE
    IN [op |-> "track_usage", pc |-> "returned", job_id |-> JobId,
        usage |-> u, task_id |-> "task_1", cost |-> cost, seen |-> ZeroCost,
        overlapped |-> FALSE]

\* The jobs table has the running jobs' rows (job_2 may have none), all
\* created today.  Either nothing has been tracked yet, or one call for job_1
\* has returned: the ledger holds its entry and the audit log its row.
InitAsync ==
    /\ ScanIdle /\ WalkIdle /\ BuildIdle /\ JobsIdle /\ CtxIdle
    /\ OrchIdle
    /\ SafetyIdle
    /\ last_call = NoCall
    /\ returned = [j \in CostJobs |-> <<>>]
    /\ \/ /\ coroutines = EmptyDict
          /\ svc_job_costs = EmptyDict
          /\ audit_log = <<>>
       \/ LET co == EarlierCall
          IN /\ coroutines = [c \in {0} |-> co]
             /\ svc_job_costs =
                   UpdateTracking(EmptyDict, co.job_id, co.usage.model,
                                  co.usage.input_tokens, co.usage.output_tokens,
                                  co.task_id, co.cost)
             /\ audit_log =
                   << UsageEvent(co.job_id, co.usage.model, co.usage.input_tokens,
                                 co.usage.output_tokens, co.cost, co.task_id) >>
    /\ \E present \in {{JobId}, CostJobs} :
          /\ jobs = [j \in present |-> [NewJob EXCEPT !.status = "running"]]
          /\ created_at = [j \in present |-> "today"]

\* The frame of a step of a cost tracker coroutine.
AsyncFrame ==
    UNCHANGED << orch_vars, returned, safety_vars, scan_vars, walk_vars,
                 build_vars, workers, ctx_vars >>

\* track_usage lines 34-68: the call computes its cost (46), updates the
\* ledger (48-65) and is suspended in _log_usage_event at db.commit() (117).
\* No await lies between line 46 and line 65.
track_usage_start ==
    /\ Cardinality(Started) < MaxCoroutines
    /\ \E job_id \in CostJobs, u \in AsyncUsages, task_id \in UsageTaskIds :
       \E cost \in _calculate_cost(u.model, u.input_tokens, u.output_tokens) :
          LET c == Cardinality(Started) + 1
          IN /\ svc_job_costs' = UpdateTracking(svc_job_costs, job_id, u.model,
                                                u.input_tokens, u.output_tokens,
                                                task_id, cost)
             /\ coroutines' =
                   [k \in DOMAIN coroutines \cup {c} |->
                      IF k = c
                      THEN [op |-> "track_usage", pc |-> "log",
                            job_id |-> job_id, usage |-> u, task_id |-> task_id,
                            cost |-> cost,
                            seen |-> EntryOf(svc_job_costs, job_id),
                            overlapped |->
                               \E o \in InFlight :
                                  /\ coroutines[o].op = "track_usage"
                                  /\ coroutines[o].job_id = job_id]
                      ELSE coroutines[k]]
    /\ UNCHANGED << jobs, created_at, audit_log, last_call >>
    /\ AsyncFrame

\* Variant that writes back the totals it saw when the call started, plus
\* its own usage, when the commit of the usage event returns.
track_usage_logged_write_back ==
    \E c \in InFlight :
       LET co == coroutines[c]
           job_total == co.seen.total_cost + co.cost
       IN /\ co.op = "track_usage"
          /\ co.pc = "log"
          /\ svc_job_costs' =
                [j \in DOMAIN svc_job_costs \cup {co.job_id} |->
                   IF j = co.job_id
                   THEN [EntryOf(svc_job_costs, j) EXCEPT
                           !.total_cost = job_total,
                           !.total_tokens = co.seen.total_tokens
                                            + co.usage.input_tokens
                                            + co.usage.output_tokens]
                   ELSE svc_job_costs[j]]
          /\ audit_log' =
                Append(audit_log,
                       UsageEvent(co.job_id, co.usage.model, co.usage.input_tokens,
                                  co.usage.output_tokens, co.cost, co.task_id))
                \o (IF job_total > JOB_THRESHOLD
                    THEN << CostAlert("job_threshold_exceeded",
                                      [job |-> co.job_id, cost |-> job_total]) >>
                    ELSE <<>>)
          /\ coroutines' = [coroutines EXCEPT ![c].pc = "daily"]
          /\ UNCHANGED << jobs, created_at, last_call >>
          /\ AsyncFrame

\* The commit of _log_usage_event (117) returns: the token_usage row is
\* stored.  track_usage goes on into _check_cost_thresholds, which reads the
\* job's total from the ledger as it is now (123) and sends the job alert
\* (124-128); the call is then suspended in _get_daily_cost (131).
track_usage_logged ==
    \E c \in InFlight :
       LET co == coroutines[c]
           job_total == EntryOf(svc_job_costs, co.job_id).total_cost
       IN /\ co.op = "track_usage"
          /\ co.pc = "log"
          /\ audit_log' =
                Append(audit_log,
                       UsageEvent(co.job_id, co.usage.model, co.usage.input_tokens,
                                  co.usage.output_tokens, co.cost, co.task_id))
                \o (IF job_total > JOB_THRESHOLD
                    THEN << CostAlert("job_threshold_exceeded",
                                      [job |-> co.job_id, cost |-> job_total]) >>
                    ELSE <<>>)
          /\ coroutines' = [coroutines EXCEPT ![c].pc = "daily"]
          /\ UNCHANGED << svc_job_costs, jobs, created_at, last_call >>
          /\ AsyncFrame

\* The SELECT of _get_daily_cost returns (131): the daily alert (132-136);
\* the call is then suspended in _get_monthly_cost (139).
track_usage_daily ==
    \E c \in InFlight :
       LET co == coroutines[c]
           daily_cost == _get_daily_cost(jobs, created_at)
       IN /\ co.op = "track_usage"
          /\ co.pc = "daily"
          /\ audit_log' =
                audit_log
                \o (IF daily_cost > DAILY_THRESHOLD
                    THEN << CostAlert("daily_threshold_exceeded",
                                      [cost |-> daily_cost]) >>
                    ELSE <<>>)
          /\ coroutines' = [coroutines EXCEPT ![c].pc = "monthly"]
          /\ UNCHANGED << svc_job_costs, jobs, created_at, last_call >>
          /\ AsyncFrame

\* The SELECT of _get_monthly_cost returns (139): the monthly alert
\* (140-144), and track_usage returns its cost (75).
track_usage_monthly ==
    \E c \in InFlight :
       LET co == coroutines[c]
           monthly_cost == _get_monthly_cost(jobs, created_at)
       IN /\ co.op = "track_usage"
          /\ co.pc = "monthly"
          /\ audit_log' =
                audit_log
                \o (IF monthly_cost > MONTHLY_THRESHOLD
                    THEN << CostAlert("monthly_threshold_exceeded",
                                      [cost |-> monthly_cost]) >>
                    ELSE <<>>)
          /\ coroutines' = [coroutines EXCEPT ![c].pc = "returned"]
          /\ UNCHANGED << svc_job_costs, jobs, created_at, last_call >>
          /\ AsyncFrame

\* What the name job_cost_data of a flush is bound to: the job's entry in
\* the ledger, as it is now, while the flush holds that dict object; the
\* dict it was left with otherwise.
JobCostData(co) ==
    IF co.live THEN svc_job_costs[co.job_id] ELSE co.job_cost_data

\* update_job_final_cost lines 254-260: get_job_cost (196-202) has no await
\* inside and returns the entry itself, the dict object the ledger holds, or
\* a new dict of zeros; the call is suspended at the SELECT (260).
update_job_final_cost_start ==
    /\ Cardinality(Started) < MaxCoroutines
    /\ \E job_id \in CostJobs :
          LET c == Cardinality(Started) + 1
          IN coroutines' =
                [k \in DOMAIN coroutines \cup {c} |->
                   IF k = c
                   THEN [op |-> "update_job_final_cost", pc |-> "select",
                         job_id |-> job_id,
                         live |-> job_id \in DOMAIN svc_job_costs,
                         job_cost_data |-> ZeroCost,
                         cost_usd |-> 0, tokens_used |-> 0]
                   ELSE coroutines[k]]
    /\ UNCHANGED << svc_job_costs, jobs, created_at, audit_log, last_call >>
    /\ AsyncFrame

\* The SELECT returns (260-261).  If the job has a row, its cost_usd and
\* tokens_used are set from job_cost_data as it is now (263-264); the call
\* is suspended at db.commit() (265), or at the exit of the session.
update_job_final_cost_selected ==
    \E c \in InFlight :
       LET co == coroutines[c]
       IN /\ co.op = "update_job_final_cost"
          /\ co.pc = "select"
          /\ coroutines' =
                [coroutines EXCEPT
                   ![c].pc = IF co.job_id \in DOMAIN jobs THEN "commit" ELSE "close",
                   ![c].cost_usd = JobCostData(co).total_cost,
                   ![c].tokens_used = JobCostData(co).total_tokens]
          /\ UNCHANGED << svc_job_costs, jobs, created_at, audit_log, last_call >>
          /\ AsyncFrame

\* The commit returns (265): the row holds the values set at lines 263-264.
\* Then the entry is deleted (268-269) and the call returns.  Another flush
\* that holds the deleted dict keeps it as it is at this moment.
update_job_final_cost_committed ==
    \E c \in InFlight :
       LET co == coroutines[c]
           had_entry == co.job_id \in DOMAIN svc_job_costs
       IN /\ co.op = "update_job_final_cost"
          /\ co.pc \in {"commit", "close"}
          /\ jobs' = IF co.pc = "commit"
                     THEN [jobs EXCEPT ![co.job_id].cost_usd = co.cost_usd,
                                       ![co.job_id].tokens_used = co.tokens_used]
                     ELSE jobs
          /\ svc_job_costs' = [j \in DOMAIN svc_job_costs \ {co.job_id} |->
                                  svc_job_costs[j]]
          /\ coroutines' =
                [k \in DOMAIN coroutines |->
                   IF k = c THEN [co EXCEPT !.pc = "returned", !.live = FALSE]
                   ELSE IF /\ coroutines[k].op = "update_job_final_cost"
                           /\ coroutines[k].job_id = co.job_id
                           /\ coroutines[k].live
                        THEN [coroutines[k] EXCEPT
                                !.live = FALSE,
                                !.job_cost_data = svc_job_costs[co.job_id]]
                        ELSE coroutines[k]]
          /\ last_call' = [op |-> "update_job_final_cost", seq |-> c,
                           job_id |-> co.job_id, outcome |-> "returned",
                           had_entry |-> had_entry,
                           job_cost_data |-> EntryOf(svc_job_costs, co.job_id)]
          /\ UNCHANGED << created_at, audit_log >>
          /\ AsyncFrame

NextAsync ==
    \/ track_usage_start
    \/ track_usage_logged
    \/ track_usage_daily
    \/ track_usage_monthly
    \/ update_job_final_cost_start
    \/ update_job_final_cost_selected
    \/ update_job_final_cost_committed

SpecAsync == InitAsync /\ [][NextAsync]_vars

---------------------------------------------------------------------------
(* The dependency graph, stated independently of the traversal *)

TaskSet == Range(tasks)

\* The direct dependencies of t that are tasks of the workflow.
InSetDeps(t) == Range(DepsGet(dependencies, t)) \cap TaskSet

RECURSIVE Closure(_, _)
Closure(S, n) ==
    IF n = 0 THEN S
    ELSE Closure(S \cup UNION {InSetDeps(x) : x \in S}, n - 1)

\* The transitive in-set dependencies of t.
TransDeps(t) == Closure(InSetDeps(t), Cardinality(TaskSet))

OnCycle(t) == t \in TransDeps(t)
Cyclic == \E t \in TaskSet : OnCycle(t)

\* The order has been computed (or the attempt has failed).
Sorted == pc \in {"loop", "in_task", "except", "done"}

\* A task of the loop, not the ordering, raised.
TaskFailed == exc.type \in {"AttributeError", "ExecutorError"}

Ids(calls) == [i \in 1..Len(calls) |-> calls[i].task]

RECURSIVE SumCosts(_)
SumCosts(calls) ==
    IF calls = <<>> THEN 0
    ELSE calls[Len(calls)].cost + SumCosts(SubSeq(calls, 1, Len(calls) - 1))

IsPrefix(s, t) == Len(s) <= Len(t) /\ s = SubSeq(t, 1, Len(s))

NoRepeat(s) == \A i, j \in 1..Len(s) : s[i] = s[j] => i = j

Job == jobs[JobId]

---------------------------------------------------------------------------
(* Claims *)

\* C1: for an acyclic in-set dependency graph _topological_sort returns
\* without error a sequence holding every task id exactly once (so no id
\* from outside tasks), each task after all its transitive in-set
\* dependencies.
C1_AcyclicOrder ==
    (Sorted /\ ~Cyclic) =>
        /\ exc.type # "ValueError"
        /\ Len(execution_order) = Cardinality(TaskSet)
        /\ Range(execution_order) = TaskSet
        /\ \A i \in 1..Len(execution_order) :
              TransDeps(execution_order[i]) \subseteq
                  {execution_order[j] : j \in 1..(i - 1)}

\* An acyclic workflow with a real dependency, a dependency on an id that
\* is no task, and an order that differs from the iteration order.
C1_Witness ==
    /\ pc = "loop"
    /\ ~Cyclic
    /\ \E t \in TaskSet : InSetDeps(t) # {}
    /\ \E t \in TaskSet : ~(Range(dependencies[t]) \subseteq TaskSet)
    /\ execution_order # tasks

\* C2: for a cyclic in-set graph (self-dependency included) the sort raises
\* an error naming a task that lies on a cycle, and the caller receives no
\* order at all.
C2_CycleRaises ==
    (Sorted /\ Cyclic) =>
        /\ pc \in {"except", "done"}
        /\ exc.type = "ValueError"
        /\ \E t \in TaskSet : OnCycle(t) /\ exc.msg = CircularMessage(t)
        /\ execution_order = <<>>

\* The cycle is not at the first task iterated: that one has no
\* dependencies at all, and two later tasks depend on each other.
C2_Witness ==
    /\ pc = "except"
    /\ exc.type = "ValueError"
    /\ Len(tasks) = 3
    /\ dependencies[tasks[1]] = <<>>
    /\ ~OnCycle(tasks[1])
    /\ OnCycle(tasks[2]) /\ OnCycle(tasks[3])
    /\ \A t \in TaskSet : t \notin Range(dependencies[t])

\* C3: the statuses written to a job are pending, then running once, then
\* exactly one of completed or failed, and nothing after that; the row
\* shows the last status written.
C3_Lifecycle ==
    /\ Len(status_log) <= 3
    /\ Len(status_log) >= 1 => status_log[1] = "pending"
    /\ Len(status_log) >= 2 => status_log[2] = "running"
    /\ Len(status_log) >= 3 => status_log[3] \in {"completed", "failed"}
    /\ (status_log = <<>>) = (JobId \notin DOMAIN jobs)
    /\ JobId \in DOMAIN jobs => Job.status = status_log[Len(status_log)]
    /\ pc = "done" => Len(status_log) = 3
    /\ pc \in {"workflow", "loop", "in_task", "except"} => Len(status_log) = 2

C3_Witness ==
    /\ pc = "done"
    /\ status_log = <<"pending", "running", "completed">>
    /\ Len(execution_order) = 3

\* C4: when the ordering fails with a cycle error the job goes from running
\* straight to failed with the error in error_message; no task is executed
\* and no cost is tracked.
C4_CycleFailsJob ==
    Cyclic =>
        /\ executed = <<>>
        /\ tracked = <<>>
        /\ job_costs = EmptyDict
        /\ pc = "done" =>
              /\ status_log = <<"pending", "running", "failed">>
              /\ \E t \in TaskSet : Job.error_message = CircularMessage(t)
              /\ Job.error_message = exc.msg

C4_Witness ==
    /\ pc = "done"
    /\ Cyclic
    /\ Job.status = "failed"

\* C5: when the k-th task of the order raises, no later task is executed or
\* cost-tracked, the failing task is not executed again, and the job ends
\* failed.  (The failing task is execution_order[idx].)
C5_StopAtFailure ==
    TaskFailed =>
        /\ pc \in {"except", "done"}
        /\ IsPrefix(executed, execution_order)
        /\ Len(executed) \in {idx - 1, idx}
        /\ IsPrefix(Ids(tracked), executed)
        /\ NoRepeat(executed)
        /\ pc = "done" => Job.status = "failed"

\* The second of three tasks failed and the job is finished.
C5_Witness ==
    /\ pc = "done"
    /\ TaskFailed
    /\ idx = 2
    /\ Len(execution_order) = 3
    /\ Len(executed) = 2

\* What the job row holds of the per-task results.
PersistedTasks ==
    IF Job.output_data = NoneData THEN EmptyDict ELSE Job.output_data.tasks

\* C6: when the k-th task fails, the failed job's persisted
\* output_data.tasks holds exactly the results of the k-1 tasks completed
\* before it.
C6_PartialOutputRetained ==
    (pc = "done" /\ TaskFailed) => PersistedTasks = task_outputs

\* C7: when a job fails after j tasks were cost-tracked, cost_usd of the
\* failed row equals the sum of those j costs.
C7_CostNotRolledBack ==
    (pc = "done" /\ Job.status = "failed") => Job.cost_usd = SumCosts(tracked)

C9_CompletedNoError ==
    (JobId \in DOMAIN jobs /\ Job.status = "completed") =>
        Job.error_message = NoneStr

C9_Witness ==
    /\ JobId \in DOMAIN jobs
    /\ Job.status = "completed"
    /\ executed # <<>>

\* The workflow crew_builder generates for three tasks.
Linear3 ==
    /\ tasks = <<"task_1", "task_2", "task_3">>
    /\ dependencies = [t \in TaskSet |->
                          IF t = "task_2" THEN <<"task_1">>
                          ELSE IF t = "task_3" THEN <<"task_2">>
                          ELSE <<>>]

\* C10: when no task and no ordering raises, the job ends completed; a
\* completed job has output_data.tasks keyed by exactly the task set, every
\* task executed and cost-tracked exactly once, and cost_usd equal to the sum
\* of the tracked costs; the 3-task linear workflow runs in the order
\* task_1, task_2, task_3.
C10_AllSucceed ==
    /\ (pc = "done" /\ exc = NoException) => Job.status = "completed"
    /\ (pc = "done" /\ Job.status = "completed") =>
          /\ exc = NoException
          /\ Job.output_data # NoneData
          /\ DOMAIN Job.output_data.tasks = TaskSet
          /\ Range(executed) = TaskSet
          /\ NoRepeat(executed)
          /\ Ids(tracked) = executed
          /\ Job.cost_usd = SumCosts(tracked)
          /\ Job.cost_usd = TaskCost * Cardinality(TaskSet)
          /\ Linear3 => Job.output_data.execution_order =
                            <<"task_1", "task_2", "task_3">>

C10_Witness ==
    /\ pc = "done"
    /\ Job.status = "completed"
    /\ Linear3
    /\ Job.cost_usd = 3 * TaskCost

\* The tokens of the track_task_cost calls.
RECURSIVE SumTokens(_)
SumTokens(calls) ==
    IF calls = <<>> THEN 0
    ELSE calls[Len(calls)].tokens + SumTokens(SubSeq(calls, 1, Len(calls) - 1))

Completed == pc = "done" /\ Job.status = "completed"

\* C11: on full completion output_data.execution_order is exactly the
\* computed execution order and output_data.final_output is the result of
\* the last task id of that order; a workflow with no tasks still completes,
\* with an empty execution order and an empty final output.
C11_FinalOutput ==
    /\ Completed =>
          /\ Job.output_data # NoneData
          /\ execution_order = _topological_sort(tasks, dependencies).value
          /\ Job.output_data.execution_order = execution_order
          /\ execution_order # <<>> =>
                Job.output_data.final_output =
                    TaskResult(execution_order[Len(execution_order)])
          /\ execution_order = <<>> => Job.output_data.final_output = EmptyDict
    /\ (pc = "done" /\ tasks = <<>>) =>
          /\ Job.status = "completed"
          /\ Job.output_data # NoneData
          /\ Job.output_data.execution_order = <<>>

\* A completed job of three tasks whose last task in the order is not the
\* last one of the iteration order, nor the first of the order.
C11_Witness ==
    /\ Completed
    /\ Len(execution_order) = 3
    /\ execution_order[3] # tasks[3]

\* C12: once the job is in a terminal state the orchestrator's cost tracker
\* holds no ledger entry for it (the entry is deleted at finalization).
C12_LedgerDeleted ==
    pc = "done" => JobId \notin DOMAIN job_costs

\* C13: on full completion tokens_used of the job row equals the sum of the
\* tokens tracked for the job's tasks.
C13_TokensPersisted ==
    Completed => Job.tokens_used = SumTokens(tracked)

Abs(n) == IF n < 0 THEN 0 - n ELSE n

Priced == last_call.op = "_calculate_cost"

\* C15: the cost of a call is input_tokens/1000 times the model's input rate
\* plus output_tokens/1000 times its output rate, rounded to 4 decimal
\* places (no further than half of 0.0001 from the exact amount); a model
\* that is not in the rate table is priced with the rates of gpt-4.
C15_Price ==
    Priced =>
        LET c == last_call
            m == IF c.model \in DOMAIN MODEL_COSTS THEN c.model ELSE "gpt-4"
            exact == c.input_tokens * MODEL_COSTS[m].input
                     + c.output_tokens * MODEL_COSTS[m].output
        IN /\ c.cost >= 0
           /\ 2 * Abs(c.cost * Scale4 - exact) <= Scale4
           /\ c.model = UnknownModel =>
                 2 * Abs(c.cost * Scale4 - (c.input_tokens * 3000
                                            + c.output_tokens * 6000)) <= Scale4

\* An unknown model priced on both token counts, rounded upwards:
\* 7 input and 6 output tokens cost 0.00057 USD at the rates of gpt-4,
\* returned as 0.0006.
C15_Witness ==
    /\ Priced
    /\ last_call.model = UnknownModel
    /\ last_call.input_tokens = 7
    /\ last_call.output_tokens = 6
    /\ last_call.cost = 6

Tracked == last_call.op = "track_usage"
Flushed == last_call.op = "update_job_final_cost"

\* The rows of the audit log that are alerts of the given type.
AlertsIn(log, alert_type) ==
    {i \in 1..Len(log) :
        /\ log[i].event_type = "cost_alert"
        /\ log[i].event_data.alert_type = alert_type}

\* C14: every cost track_usage returns is >= 0 and, for every job, the
\* ledger's total_cost is the sum of the costs returned by the track_usage
\* calls for that job and total_tokens the sum of their input plus output
\* tokens (the calls since the job's entry was created).
C14_LedgerSums ==
    /\ Tracked => last_call.cost >= 0
    /\ \A j \in CostJobs :
          /\ (j \in DOMAIN svc_job_costs) = (returned[j] # <<>>)
          /\ \A i \in 1..Len(returned[j]) : returned[j][i].cost >= 0
          /\ j \in DOMAIN svc_job_costs =>
                /\ svc_job_costs[j].total_cost = SumCosts(returned[j])
                /\ svc_job_costs[j].total_tokens = SumTokens(returned[j])

\* Two jobs tracked, one of them twice with different costs on both token
\* counts.
C14_Witness ==
    /\ Len(returned["job_1"]) = 2
    /\ Len(returned["job_2"]) = 1
    /\ returned["job_1"][1].cost # returned["job_1"][2].cost
    /\ \E i \in 1..2 : returned["job_1"][i].tokens = 2200

\* C16: update_job_final_cost removes the job's ledger entry; a second call
\* for the same job, or a call for a job that was never tracked, returns
\* without error and works on zero total cost, zero total tokens and no
\* per-task entries.
C16_Flush ==
    Flushed =>
        /\ last_call.outcome = "returned"
        /\ last_call.job_id \notin DOMAIN svc_job_costs
        /\ ~last_call.had_entry =>
              /\ last_call.job_cost_data.total_cost = 0
              /\ last_call.job_cost_data.total_tokens = 0
              /\ last_call.job_cost_data.tasks = EmptyDict
        /\ last_call.job_id \in DOMAIN jobs =>
              /\ jobs[last_call.job_id].cost_usd = last_call.job_cost_data.total_cost
              /\ jobs[last_call.job_id].tokens_used =
                    last_call.job_cost_data.total_tokens

\* The job was tracked with a task entry, flushed, and is flushed again.
C16_Witness ==
    /\ Flushed
    /\ last_call.seq = 3
    /\ ~last_call.had_entry
    /\ \E i \in 1..Len(audit_log) :
          /\ audit_log[i].event_type = "token_usage"
          /\ audit_log[i].job_id = last_call.job_id
          /\ audit_log[i].event_data.task_id = "task_1"
          /\ audit_log[i].event_data.cost_usd > 0

\* C17: after every track_usage call a job-threshold alert is emitted if and
\* only if the job's cumulative ledger cost is strictly greater than
\* JOB_THRESHOLD; a call for a job already over the threshold alerts again;
\* the call returns its cost whether or not it alerts.
C17_JobAlert ==
    Tracked =>
        LET new == SubSeq(audit_log, last_call.logged_before + 1, Len(audit_log))
            job_alerts == AlertsIn(new, "job_threshold_exceeded")
            job_total == svc_job_costs[last_call.job_id].total_cost
        IN /\ (job_alerts # {}) = (job_total > JOB_THRESHOLD)
           /\ Cardinality(job_alerts) <= 1
           /\ \A i \in job_alerts :
                 new[i].event_data.message =
                     [job |-> last_call.job_id, cost |-> job_total]
           /\ last_call.total_before > JOB_THRESHOLD => job_alerts # {}
           /\ last_call.outcome = "returned"
           /\ last_call.cost \in _calculate_cost(last_call.usage.model,
                                                 last_call.usage.input_tokens,
                                                 last_call.usage.output_tokens)
           /\ job_total = last_call.total_before + last_call.cost

\* A call for a job that was over the threshold before it: the log holds two
\* job alerts for that job.
C17_Witness ==
    /\ Tracked
    /\ last_call.total_before > JOB_THRESHOLD
    /\ Cardinality({i \in AlertsIn(audit_log, "job_threshold_exceeded") :
                       audit_log[i].event_data.message.job = last_call.job_id}) >= 2

\* C18: a failure of the audit log while track_usage records its usage event
\* or an alert does not abort the call: every track_usage call returns its
\* cost.
C18_AuditFailureTolerated ==
    Tracked => last_call.outcome = "returned"

Scored == safety_report # NoneData

\* The categories of a report that have matches.
Present(prohibited_content) ==
    {c \in DOMAIN prohibited_content : prohibited_content[c] # {}}

TotalPii == SumValues(findings.pii_found, PiiTypes)

\* C19: the safety score lies in [0.0, 1.0], and the findings with one more
\* PII hit or one more prohibited category never score higher.
C19_ScoreRangeMonotone ==
    Scored =>
        LET pii == findings.pii_found
            proh == findings.prohibited_content
            score == safety_report.safety_score
        IN /\ score \in 0..100
           /\ \A t \in PiiTypes :
                 _calculate_safety_score([pii EXCEPT ![t] = @ + 1], proh) <= score
           /\ \A c \in Categories \ Present(proh), m \in (SUBSET Terms) \ {{}} :
                 _calculate_safety_score(
                     pii,
                     [x \in DOMAIN proh \cup {c} |-> IF x = c THEN m ELSE proh[x]])
                    <= score

\* The floor acts: every penalised category is present, with PII beyond the
\* cap.
C19_Witness ==
    /\ Scored
    /\ {"violence", "hate_speech", "illegal"} \subseteq
          Present(findings.prohibited_content)
    /\ TotalPii > 6
    /\ safety_report.safety_score = 0

\* C20: the score is 1.0 minus min(0.3, 0.05 * PII hits) minus the fixed
\* penalties of the categories present (violence 0.4, hate speech 0.5,
\* illegal 0.6), floored at 0.0, whatever the number of matched terms: clean
\* content scores 1.0, violence alone 0.6, hate speech alone 0.5, illegal
\* alone 0.4.
C20_ScoreFormula ==
    Scored =>
        LET present == Present(findings.prohibited_content)
            score == safety_report.safety_score
            pii_part == IF TotalPii >= 6 THEN 30 ELSE 5 * TotalPii
            raw == 100 - pii_part
                   - (IF "violence" \in present THEN 40 ELSE 0)
                   - (IF "hate_speech" \in present THEN 50 ELSE 0)
                   - (IF "illegal" \in present THEN 60 ELSE 0)
        IN /\ score = IF raw < 0 THEN 0 ELSE raw
           /\ (TotalPii = 0 /\ present \subseteq {"other"}) => score = 100
           /\ (TotalPii = 0 /\ present = {"violence"}) => score = 60
           /\ (TotalPii = 0 /\ present = {"hate_speech"}) => score = 50
           /\ (TotalPii = 0 /\ present = {"illegal"}) => score = 40

\* Violence matched by two terms, with PII beyond the cap of the deduction.
C20_Witness ==
    /\ Scored
    /\ Present(findings.prohibited_content) = {"violence"}
    /\ findings.prohibited_content["violence"] = Terms
    /\ TotalPii = 7
    /\ safety_report.safety_score = 30

Scanned == last_call.op = "enforce_safety"

\* The rows of the audit log with the given event type.
RowsOf(log, event_type) ==
    {i \in 1..Len(log) : log[i].event_type = event_type}

\* C21: a scan raises a safety alert, once, if and only if its safety score
\* is below 0.7; whatever the score the call returns the redacted text and
\* the report, and writes one safety_check record.
C21_AlertBelowThreshold ==
    Scanned =>
        LET new == SubSeq(audit_log, last_call.logged_before + 1, Len(audit_log))
            alerts == RowsOf(new, "safety_alert")
            checks == RowsOf(new, "safety_check")
        IN /\ (alerts # {}) = (safety_report.safety_score < 70)
           /\ Cardinality(alerts) <= 1
           /\ Cardinality(checks) = 1
           /\ \A i \in checks :
                 /\ new[i].job_id = last_call.job_id
                 /\ new[i].event_data.safety_report = safety_report
           /\ \A i \in alerts :
                 /\ new[i].job_id = last_call.job_id
                 /\ new[i].event_data.safety_score = safety_report.safety_score
           /\ last_call.outcome = "returned"
           /\ safety_report.original_length = Len(content)

\* A scan of a text with a prohibited word and PII: the alert is in the log.
C21_Witness ==
    /\ Scanned
    /\ safety_report.safety_score < 70
    /\ safety_report.redactions_made > 0
    /\ RowsOf(audit_log, "safety_alert") # {}
    /\ cleaned_content # content

\* C22: PII alone never triggers a safety alert: with no prohibited content
\* the score is at least 0.7 whatever the PII hit counts, below 1.0 as soon
\* as there is one hit, and exactly 1.0 with zero hits.
C22_PiiAloneNoAlert ==
    (Scored /\ Present(findings.prohibited_content) = {}) =>
        LET score == safety_report.safety_score
        IN /\ score >= 70
           /\ ~(score < 70)
           /\ (TotalPii >= 1) => (score < 100)
           /\ (TotalPii = 0) => (score = 100)

C22_Witness ==
    /\ Scored
    /\ findings.prohibited_content = EmptyDict
    /\ \A t \in PiiTypes : findings.pii_found[t] = MaxHits
    /\ safety_report.safety_score = 70

\* C23: the pii_found of every safety report holds a count for each of the
\* six PII categories, zero counts included, and redactions_made is the sum
\* of those counts.
C23_SixCounts ==
    Scanned =>
        LET pii_found == safety_report.pii_found
        IN /\ DOMAIN pii_found =
                 {"email", "phone", "ssn", "credit_card", "ip_address", "api_key"}
           /\ \A t \in DOMAIN pii_found : pii_found[t] \in Nat
           /\ safety_report.redactions_made =
                 SumValues(pii_found, DOMAIN pii_found)

C23_Witness ==
    /\ Scanned
    /\ safety_report.pii_found["email"] = 2
    /\ safety_report.pii_found["ssn"] = 1
    /\ safety_report.pii_found["credit_card"] = 0
    /\ safety_report.pii_found["api_key"] = 0
    /\ safety_report.redactions_made = 3

Redacted == last_call.op = "_redact_email"

\* The number of @ characters of a text.
CountAt(s) == Cardinality({i \in 1..Len(s) : s[i] = "@"})

Occurs(sub, s) ==
    \E i \in 1..(Len(s) - Len(sub) + 1) : SubSeq(s, i, i + Len(sub) - 1) = sub

\* C25: scanning a text made of exactly one well-formed email, one phone
\* number and one national id reports a count of 1 for each of the three
\* categories, and none of the three literals occurs in the returned text.
C25_RoundTrip ==
    Scanned =>
        \A e \in Emails, p \in Phones, n \in NationalIds :
            content \in {Join(<< e, p, n >>), Join(<< p, n, e >>),
                         Join(<< n, e, p >>)} =>
                /\ safety_report.pii_found["email"] = 1
                /\ safety_report.pii_found["phone"] = 1
                /\ safety_report.pii_found["ssn"] = 1
                /\ ~Occurs(e, cleaned_content)
                /\ ~Occurs(p, cleaned_content)
                /\ ~Occurs(n, cleaned_content)

Validated == last_call.op \in {"validate_input", "validate_output"}

\* The dict holds itself, directly or through the dicts it holds.
RECURSIVE HoldsItself(_, _, _)
HoldsItself(heap, id, seen) ==
    \/ id \in seen
    \/ \E k \in DOMAIN heap[id] :
          /\ heap[id][k].kind = "dict"
          /\ HoldsItself(heap, heap[id][k].ref, seen \cup {id})

\* The redacted form of a text.
RedactedForm(text) == enforce_safety(text, JobId, NoneData).cleaned_content

\* A dict with every string leaf at any depth, and every string of a list,
\* replaced by its redacted form, and everything else as it was.
RECURSIVE RedactedDict(_, _)
RedactedDict(heap, id) ==
    [k \in DOMAIN heap[id] |->
        LET v == heap[id][k]
        IN CASE v.kind = "str" -> [v EXCEPT !.text = RedactedForm(v.text)]
             [] v.kind = "list" ->
                  [v EXCEPT !.items =
                      [i \in 1..Len(v.items) |-> RedactedForm(v.items[i])]]
             [] v.kind = "dict" ->
                  Value("dict", <<>>, <<>>, 0, RedactedDict(heap, v.ref))
             [] OTHER -> v]

\* C26: validate_input and validate_output walk a mapping recursively: every
\* string leaf at any depth is replaced by its redacted form, nested mappings
\* are processed recursively, sequences of strings are scanned element by
\* element, and the other leaves are returned unchanged.
C26_RecursiveWalk ==
    (Validated /\ ~HoldsItself(data, 1, {})) =>
        /\ last_call.outcome = "returned"
        /\ cleaned_data = RedactedDict(data, 1)

\* C27: validate_input and validate_output terminate on every input, also on
\* a mapping that holds itself: the structure is rejected or the depth is
\* capped, and the walk never nests deeper than the structure has mappings.
C27_WalkTerminates ==
    Validated =>
        /\ last_call.outcome \in {"returned", "rejected"}
        /\ last_call.depth <= MaxObjects

\* C28: for a list of n task definitions the builder names the tasks
\* task_1 .. task_n, gives task_1 no dependencies and makes each task_i with
\* i > 1 depend on exactly task_(i-1); the orchestrator orders such a
\* workflow as [task_1, ..., task_n] and never reports a cycle.
C28_GeneratedLinear ==
    workflows_config # NoneData =>
        LET n == Len(tasks_data)
            name == [i \in 1..n |-> "task_" \o ToString(i)]
        IN /\ workflows_config.keys = name
           /\ DOMAIN workflows_config.tasks = Range(name)
           /\ DOMAIN workflows_config.dependencies = Range(name)
           /\ \A i \in 1..n :
                 workflows_config.dependencies[name[i]] =
                     IF i = 1 THEN <<>> ELSE << name[i - 1] >>
           /\ pc # "except"
           /\ pc = "loop" => execution_order = name

C28_Witness ==
    /\ Len(tasks_data) = MaxTasks
    /\ pc = "loop"
    /\ Len(execution_order) = MaxTasks
    /\ execution_order[3] = "task_3"
    /\ workflows_config.dependencies["task_3"] = << "task_2" >>

\* C29: jobs are independent: the ledger entry of a job is changed by the
\* tracking of that job only, and under every interleaving of concurrently
\* executing jobs each job's final cost_usd is the sum of the costs of its
\* own tasks.
C29_JobsIndependent ==
    \A j \in DOMAIN workers :
        /\ DOMAIN workers[j].job_costs \subseteq {j}
        /\ get_job_cost(workers[j].job_costs, j) = SumCosts(workers[j].tracked)
        /\ workers[j].pc = "done" =>
              jobs[j].cost_usd = SumCosts(workers[j].tracked)

\* C30: within one job tasks run one at a time in execution order: when a
\* task starts, the result of every task before it in the order is in the
\* task-output map and its cost is in the ledger, and no two tasks of the
\* job are in progress at the same time.
C30_OneTaskAtATime ==
    LET started == Range(executed)
        unfinished == {t \in started : t \notin DOMAIN task_outputs}
    IN /\ IsPrefix(executed, execution_order)
       /\ Cardinality(unfinished) <= 1
       /\ pc = "in_task" =>
             /\ Len(executed) = idx
             /\ unfinished = {execution_order[idx]}
             /\ \A k \in 1..(idx - 1) :
                   /\ execution_order[k] \in DOMAIN task_outputs
                   /\ JobId \in DOMAIN job_costs
                   /\ execution_order[k] \in DOMAIN job_costs[JobId].tasks
                   /\ job_costs[JobId].tasks[execution_order[k]].cost = TaskCost

C30_Witness ==
    /\ pc = "in_task"
    /\ idx = 3
    /\ Len(execution_order) = 3
    /\ DOMAIN task_outputs = {execution_order[1], execution_order[2]}
    /\ job_costs[JobId].total_cost = 2 * TaskCost

\* The safety_check records of the job in the audit log.
ScansOf(job_id) ==
    {i \in RowsOf(audit_log, "safety_check") : audit_log[i].job_id = job_id}

\* C31: every task the orchestrator executes has its input validated by the
\* safety enforcer before the executor runs and its output validated before
\* its cost is tracked and its result stored: no task result reaches the job
\* output unscanned.
C31_TasksScanned ==
    /\ Cardinality(ScansOf(JobId)) >= Len(executed)
    /\ \A t \in DOMAIN task_outputs : ScansOf(JobId) # {}
    /\ (JobId \in DOMAIN jobs /\ Job.output_data # NoneData) =>
          Cardinality(ScansOf(JobId)) >=
              Cardinality(DOMAIN Job.output_data.tasks)

\* The positions of the context list whose id has a recorded result.
Produced == {i \in 1..Len(context_tasks) : context_tasks[i] \in DOMAIN task_outputs}

\* The k-th produced position of the context list.
ProducedAt(k) ==
    CHOOSE i \in Produced : Cardinality({j \in Produced : j <= i}) = k

\* C32: the context built for a task is exactly the recorded results of the
\* ids of its context list that have been produced, in list order; ids not
\* produced or not in the task set are left out without an error, and the
\* recorded results are what they were before the context was built.
C32_ContextIsProducedResults ==
    pc = "context_built" =>
        /\ Len(task_context) = Cardinality(Produced)
        /\ \A k \in 1..Len(task_context) :
              task_context[k] = task_outputs[context_tasks[ProducedAt(k)]]
        /\ \A t \in DOMAIN task_outputs : task_outputs[t] = TaskResult(t)

\* A context was built from a list with a forward reference, a foreign id and
\* a produced id.
C32_Witness ==
    /\ pc = "context_built"
    /\ Len(task_context) >= 1
    /\ ForeignTask \in Range(context_tasks)
    /\ \E i \in 1..Len(context_tasks) :
          /\ context_tasks[i] \in TaskIds \ DOMAIN task_outputs
          /\ \E j \in 1..Len(context_tasks) : j > i /\ j \in Produced

\* What the jobs table holds as spent by the jobs created on the given days.
Persisted(tbl, created, days) ==
    LET spent(j) == IF j \in DOMAIN tbl /\ created[j] \in days
                    THEN tbl[j].cost_usd ELSE 0
    IN spent(PastJob) + spent("job_1") + spent("job_2")

\* What the ledger holds for the jobs still running.
InLedger ==
    LET total(j) == IF j \in DOMAIN svc_job_costs
                    THEN svc_job_costs[j].total_cost ELSE 0
    IN total("job_1") + total("job_2")

\* C33: the daily and monthly alerts of a track_usage call are decided by the
\* costs persisted in the jobs table alone (and report that figure), whatever
\* the in-memory ledger holds, and a track_usage call leaves the jobs table,
\* hence the persisted aggregates, as it was.
C33_AggregatesFromStore ==
    [][(last_call'.op = "track_usage" /\ last_call'.seq = last_call.seq + 1) =>
          LET new == SubSeq(audit_log', Len(audit_log) + 1, Len(audit_log'))
              daily == Persisted(jobs, created_at, {"today"})
              monthly == Persisted(jobs, created_at, {"today", "this_month"})
              daily_alerts == AlertsIn(new, "daily_threshold_exceeded")
              monthly_alerts == AlertsIn(new, "monthly_threshold_exceeded")
          IN /\ jobs' = jobs
             /\ created_at' = created_at
             /\ (daily_alerts # {}) = (daily > DAILY_THRESHOLD)
             /\ (monthly_alerts # {}) = (monthly > MONTHLY_THRESHOLD)
             /\ \A i \in daily_alerts : new[i].event_data.message = [cost |-> daily]
             /\ \A i \in monthly_alerts :
                   new[i].event_data.message = [cost |-> monthly]]_vars

\* A call after which the persisted costs of today and the ledger of the
\* running jobs together exceed the daily threshold, the persisted costs
\* alone do not, and no daily alert was sent.
C33_Witness ==
    /\ Tracked
    /\ Persisted(jobs, created_at, {"today"}) > 0
    /\ Persisted(jobs, created_at, {"today"}) <= DAILY_THRESHOLD
    /\ Persisted(jobs, created_at, {"today"}) + InLedger > DAILY_THRESHOLD
    /\ AlertsIn(audit_log, "daily_threshold_exceeded") = {}

\* The top-level keys of the validated dict whose value is a str.
StringFields == {k \in DOMAIN data[1] : data[1][k].kind = "str"}

\* C35: validate_input scans exactly the top-level string fields of its
\* mapping, once each; every other field, nested mappings included, comes
\* back as it was, and the result has the keys of the input.
C35_InputTopLevelStrings ==
    last_call.op = "validate_input" =>
        LET scans == RowsOf(audit_log, "safety_check")
        IN /\ last_call.outcome = "returned"
           /\ DOMAIN cleaned_data = DOMAIN data[1]
           /\ \A k \in DOMAIN data[1] :
                 cleaned_data[k] =
                     IF k \in StringFields
                     THEN [data[1][k] EXCEPT !.text = RedactedForm(data[1][k].text)]
                     ELSE data[1][k]
           /\ Cardinality(scans) = Cardinality(StringFields)
           /\ \A k \in StringFields :
                 Cardinality({i \in scans :
                     audit_log[i].event_data.context = [input_field |-> k]}) = 1

\* A dict with a string field and a field that holds another dict, which has
\* a string field of its own: one scan, and the nested dict is the same
\* object afterwards.
C35_Witness ==
    /\ last_call.op = "validate_input"
    /\ last_call.outcome = "returned"
    /\ DOMAIN data[1] = {"a", "b"}
    /\ data[1]["a"].kind = "str"
    /\ cleaned_data["a"].text # data[1]["a"].text
    /\ data[1]["b"].kind = "dict"
    /\ data[1]["b"].ref = 2
    /\ \E k \in DOMAIN data[2] : data[2][k].kind = "str"
    /\ cleaned_data["b"] = data[1]["b"]
    /\ Cardinality(RowsOf(audit_log, "safety_check")) = 1

\* The sum of a field over the per-task entries of a ledger entry.
RECURSIVE SumOver(_, _, _)
SumOver(entries, ids, field) ==
    IF ids = {} THEN 0
    ELSE LET t == CHOOSE x \in ids : TRUE
         IN entries[t][field] + SumOver(entries, ids \ {t}, field)

\* C38: in every reachable state of the cost tracker, each job's ledger entry
\* has total_cost equal to the sum of the costs of its per-task entries and
\* total_tokens equal to the sum of their tokens.
C38_TotalsArePerTaskSums ==
    \A j \in DOMAIN svc_job_costs :
        LET e == svc_job_costs[j]
        IN /\ e.total_cost = SumOver(e.tasks, DOMAIN e.tasks, "cost")
           /\ e.total_tokens = SumOver(e.tasks, DOMAIN e.tasks, "tokens")

\* execute_crew has ended and its job is completed or failed.
Ended ==
    /\ pc = "done"
    /\ JobId \in DOMAIN jobs
    /\ Job.status \in {"completed", "failed"}

\* C36: with a task executor and a job store that always return, every
\* execute_crew call eventually ends with its job completed or failed, for
\* every task and dependency map, cyclic ones included; when it has ended the
\* job is never running, and the errors of the ordering and of the tasks end
\* in the job record, not at the caller.
C36_JobEnds ==
    /\ (pc = "scheduled") ~> Ended
    /\ [](pc = "done" => Ended)
    /\ [](exc # NoException => pc \in {"except", "done"})

\* A run on a cyclic dependency map that ended failed.
C36_Witness ==
    /\ Ended
    /\ Job.status = "failed"
    /\ exc.type = "ValueError"
    /\ \E t \in TaskSet : OnCycle(t)

\* The track_usage calls made for the job, returned or not.
TracksOf(job_id) ==
    {c \in DOMAIN coroutines : /\ coroutines[c].op = "track_usage"
                               /\ coroutines[c].job_id = job_id}

\* The flushes of the job that have deleted its ledger entry.
FlushedOf(job_id) ==
    {c \in DOMAIN coroutines : /\ coroutines[c].op = "update_job_final_cost"
                               /\ coroutines[c].job_id = job_id
                               /\ coroutines[c].pc = "returned"}

RECURSIVE SumCalls(_, _)
SumCalls(cs, field) ==
    IF cs = {} THEN 0
    ELSE LET c == CHOOSE x \in cs : TRUE
             amount == IF field = "cost" THEN coroutines[c].cost
                       ELSE coroutines[c].usage.input_tokens
                            + coroutines[c].usage.output_tokens
         IN amount + SumCalls(cs \ {c}, field)

\* C34: under every interleaving of concurrent track_usage calls for the
\* same job, no update of the ledger is lost: at every moment, hence also
\* when all calls have returned, the job's total_cost and total_tokens are
\* the sums over the calls made for it (as long as no flush has deleted the
\* entry).
C34_NoLostUpdate ==
    \A j \in CostJobs :
        (TracksOf(j) # {} /\ FlushedOf(j) = {}) =>
            /\ j \in DOMAIN svc_job_costs
            /\ svc_job_costs[j].total_cost = SumCalls(TracksOf(j), "cost")
            /\ svc_job_costs[j].total_tokens = SumCalls(TracksOf(j), "tokens")

\* Calls for one job, each but the first started while an earlier one was
\* suspended, have all returned.
C34_Witness ==
    /\ Cardinality(TracksOf(JobId)) >= MaxCoroutines
    /\ InFlight = {}
    /\ Cardinality({c \in TracksOf(JobId) : coroutines[c].overlapped})
          = MaxCoroutines - 1
    /\ svc_job_costs[JobId].total_cost > JOB_THRESHOLD

\* C37: no tracked cost is lost at finalization: what update_job_final_cost
\* has written to the job record is what the ledger entry held when the call
\* deleted it, also when a track_usage call for the job runs between the
\* flush's read of the ledger and its deletion of the entry.
C37_FlushPersistsAll ==
    (/\ last_call.op = "update_job_final_cost"
     /\ last_call.had_entry
     /\ last_call.job_id \in DOMAIN jobs) =>
        /\ jobs[last_call.job_id].cost_usd = last_call.job_cost_data.total_cost
        /\ jobs[last_call.job_id].tokens_used = last_call.job_cost_data.total_tokens

=============================================================================
